---- MODULE Spec2Model ----
(***************************************************************************)
(* Default IPAM allocator: the address space (pool registry) and the       *)
(* dynamic subnet picker of libnetwork/ipams/defaultipam.                  *)
(*                                                                         *)
(* Addresses are unsigned integers of BitLen bits; a prefix is a record    *)
(* [addr, bits].  The zero netip.Prefix{} is NoPrefix.                     *)
(***************************************************************************)
EXTENDS Integers, Sequences, FiniteSets, TLC

\* Width of an address in bits (32 or 128 in the program, scaled down).
BitLen == 4
\* Cap on the length of the allocation list.
MaxAlloc == 3
\* Cap on the size imax of a shuffler.
MaxImax == 4
\* Number of concurrent callers of the address space.
MaxCallers == 2

\* Longest list given to a double cursor.
MaxList == 3

\* Longest list of predefined networks given to newAddrSpace.
MaxPdfs == 3

\* Most '/'-separated components of a string given to PoolIDFromString.
MaxParts == 6

\* Dynamic allocations tried after one was refused.
MaxExtraPicks == 2

\* Calls of Get made on a double cursor after both of its lists are exhausted.
MaxExtraGets == 2

RECURSIVE Pow2(_)
Pow2(n) == IF n <= 0 THEN 1 ELSE 2 * Pow2(n - 1)

Min(a, b) == IF a < b THEN a ELSE b

----------------------------------------------------------------------------
(* net/netip prefixes *)

PrefixFrom(a, b) == [addr |-> a, bits |-> b]

NoPrefix == [addr |-> -1, bits |-> -1]

IsValid(p) == p.bits >= 0 /\ p.addr >= 0

\* The zero netip.Addr{}.
NoAddr == -1

\* First address of the block of length 'b' that holds address 'a'.
MaskAddr(a, b) == (a \div Pow2(BitLen - b)) * Pow2(BitLen - b)

\* netip.Prefix.Contains: the leading bits of the address and of the prefix
\* agree; the zero address is in no prefix.
Contains(p, a) == a # NoAddr /\ MaskAddr(a, p.bits) = MaskAddr(p.addr, p.bits)

\* netip.Prefix.Overlaps: both are cut to the shorter length and compared.
Overlaps(p, o) ==
    IF ~IsValid(p) \/ ~IsValid(o) THEN FALSE
    ELSE LET m == Min(p.bits, o.bits)
         IN  MaskAddr(p.addr, m) = MaskAddr(o.addr, m)

----------------------------------------------------------------------------
(* ipbits, netiputil, ipamutils *)

\* The widths of an IPv4 address, of a uint64 and of an IPv6 address (32, 64
\* and 128 in the program), scaled down together.  The family of an address
\* is its width.
Len4 == BitLen
Len64 == 2 * BitLen
Len16 == 4 * BitLen

\* Shifts of an unsigned integer of w bits; the bits shifted out are lost.
lsh(w, x, n) == (x * Pow2(n)) % Pow2(w)
rsh(x, n) == x \div Pow2(n)

\* Bitwise and.
RECURSIVE and(_, _)
and(x, y) == IF x = 0 \/ y = 0 THEN 0 ELSE (x % 2) * (y % 2) + 2 * and(x \div 2, y \div 2)

\* uint128.uint64: the value, capped at math.MaxUint64.
uint64(x) == IF x >= Pow2(Len64) THEN Pow2(Len64) - 1 ELSE x

\* ipbits.Add, were the sum not to wrap at the width of the address
AddNoWrap(w, ip, x, shift) == ip + (x % Pow2(w)) * Pow2(shift)

\* ipbits.Add: ip + (x << shift) in the integers of the address's width;
\* uint32(x) keeps the low bits of x, uint128From(x) all of them.
Add(w, ip, x, shift) == (ip + lsh(w, x % Pow2(w), shift)) % Pow2(w)

\* ipbits.Sub: ip - (x << shift) in the integers of the address's width.
Sub(w, ip, x, shift) == (ip - lsh(w, x % Pow2(w), shift)) % Pow2(w)

\* ipbits.subAddr: ip1 - ip2 in the integers of the addresses' width.
subAddr(w, ip1, ip2) == (ip1 - ip2) % Pow2(w)

\* netip.PrefixFrom(addr, sz).Masked().Addr() for an address of width w
MaskedAddr(w, a, sz) == a - (a % Pow2(w - sz))

\* ipbits.Distance, were the result the low bits of the difference
DistanceWNoCap(w1, p1, w2, p2, sz) ==
    IF ~IsValid(p1) \/ ~IsValid(p2) \/ w1 # w2 \/ p2.addr < p1.addr THEN 0
    ELSE rsh(subAddr(w1, MaskedAddr(w1, p2.addr, sz), MaskedAddr(w1, p1.addr, sz)),
             w1 - sz) % Pow2(Len64)

\* ipbits.Distance on prefixes of the families w1 and w2.
DistanceW(w1, p1, w2, p2, sz) ==
    IF ~IsValid(p1) \/ ~IsValid(p2) \/ w1 # w2 \/ p2.addr < p1.addr THEN 0
    ELSE uint64(rsh(subAddr(w1, MaskedAddr(w1, p2.addr, sz), MaskedAddr(w1, p1.addr, sz)),
                    w1 - sz))

\* ipbits.Distance: number of subnets of length sz between p1 and p2, both
\* of the family the address space is made of.
Distance(p1, p2, sz) == DistanceW(BitLen, p1, BitLen, p2, sz)

\* ipbits.Field, were the mask to begin one bit late
FieldLateMask(w, ip, u, v) == uint64(rsh(and(ip, rsh(Pow2(w) - 1, u + 1)), w - v))

\* ipbits.Field: the bits u (inclusive) to v (exclusive) of ip, bit 0 being
\* the most significant.
Field(w, ip, u, v) == uint64(rsh(and(ip, rsh(Pow2(w) - 1, u)), w - v))

\* netiputil.Compare: by address, the shorter prefix first on equal addresses.
Compare(a, b) == IF a.addr # b.addr THEN a.addr - b.addr ELSE a.bits - b.bits

\* netiputil.LastAddr: the last address of a prefix.
LastAddr(p) == MaskAddr(p.addr, p.bits) + Pow2(BitLen - p.bits) - 1

\* netiputil.PrefixAfter: the prefix of length sz right after the end of
\* 'prev'; the invalid prefix when that would leave the address family.
PrefixAfter(prev, sz) ==
    IF ~IsValid(prev) THEN NoPrefix
    ELSE LET s    == Min(prev.bits, sz)
             next == MaskAddr(prev.addr, s) + Pow2(BitLen - s)
         IN  IF next >= Pow2(BitLen) THEN NoPrefix ELSE PrefixFrom(next, sz)

\* netiputil.HostID: the address without its leading 'bits' bits.
HostID(a, bits) == a % Pow2(BitLen - bits)

\* ipamutils.NetworkToSplit
FirstPrefix(pdf) == PrefixFrom(pdf.Base.addr, pdf.Size)

PdfOverlaps(pdf, p) == Overlaps(pdf.Base, p)

----------------------------------------------------------------------------
(* slices *)

SliceInsert(s, i, x) == SubSeq(s, 1, i) \o <<x>> \o SubSeq(s, i + 1, Len(s))

SliceDelete(s, i) == SubSeq(s, 1, i) \o SubSeq(s, i + 2, Len(s))

RECURSIVE SortedInsert(_, _)
SortedInsert(s, x) ==
    IF s = <<>> THEN <<x>>
    ELSE IF Compare(x, Head(s)) < 0 THEN <<x>> \o s
    ELSE <<Head(s)>> \o SortedInsert(Tail(s), x)

\* slices.SortFunc(reserved, netiputil.Compare), were it to leave the list as
\* the caller gave it
SortFuncAsGiven(s) == s

\* slices.SortFunc(reserved, netiputil.Compare)
RECURSIVE SortFunc(_)
SortFunc(s) == IF s = <<>> THEN <<>> ELSE SortedInsert(SortFunc(Tail(s)), Head(s))

Range(s) == {s[i] : i \in 1..Len(s)}

----------------------------------------------------------------------------
(* errors *)

Nil == "nil"
ErrPoolOverlap == "ErrPoolOverlap"
ErrNoMoreSubnets == "ErrNoMoreSubnets"
ErrBadPool == "ErrBadPool"
NotFound == "NotFound"
InvalidParameter == "InvalidParameter"
ErrIPOutOfRange == "ErrIPOutOfRange"
ErrNoAvailableIPs == "ErrNoAvailableIPs"
ErrIPAlreadyAllocated == "ErrIPAlreadyAllocated"

----------------------------------------------------------------------------
(* the address space *)

VARIABLES
    allocated,   \* aSpace.allocated: the list of allocated prefixes
    subnets,     \* aSpace.subnets: prefix -> PoolData
    call,        \* the last call made on the address space
    ret,         \* what that call returned
    shuffler,    \* aSpace.shuffler
    drawn,       \* what the callers of the shuffler did and hold
    mu,          \* aSpace.mu: the caller that holds it
    callers,     \* the concurrent callers: where each is in its call
    dc,          \* a doubleCursor being iterated, and what it returned so far
    calc,        \* a call of a function of ipbits or structures.go and its result
    predefined,  \* aSpace.predefined
    picks,       \* what the dynamic allocations made in a row returned
    picker       \* the locals of an allocatePredefinedPool that is running

vars == <<allocated, subnets, call, ret, shuffler, drawn, mu, callers, dc, calc,
          predefined, picks, picker>>

\* aSpace.predefined, as newAddrSpace leaves it: masked, sorted, no overlap.
Predefined ==
    << [Base |-> PrefixFrom(0, 2),                 Size |-> 3],
       [Base |-> PrefixFrom(Pow2(BitLen - 2), 2),  Size |-> 3],
       [Base |-> PrefixFrom(Pow2(BitLen - 1), 1),  Size |-> 3] >>

\* PoolData of a new pool; addrs is the set of the bits set in its bitmap.
newPoolData == [children |-> {}, autoRelease |-> FALSE, addrs |-> {}]

\* the map with key k set to v
MapSet(m, k, v) == [p \in DOMAIN m \cup {k} |-> IF p = k THEN v ELSE m[p]]

\* the map without key k
MapDelete(m, k) == [p \in DOMAIN m \ {k} |-> m[p]]

Result(a, s, e, p) ==
    [allocated |-> a, subnets |-> s, err |-> e, prefix |-> p, addr |-> NoAddr]

\* overlaps, were it to look for an equal entry only
overlapsEqualOnly(alloc, nw) == \E i \in 1..Len(alloc) : alloc[i] = nw

\* addrSpace.overlaps
overlaps(alloc, nw) == \E i \in 1..Len(alloc) : Overlaps(alloc[i], nw)

\* Index (0-based) at which allocatePool inserts nw: before the first entry
\* with a greater address, else at the end.
allocatePoolIndex(alloc, nw) ==
    LET before == {i \in 1..Len(alloc) : nw.addr < alloc[i].addr}
    IN  IF before = {} THEN Len(alloc)
        ELSE (CHOOSE i \in before : \A j \in before : i <= j) - 1

\* addrSpace.allocatePool
allocatePool(alloc, subs, nw) ==
    Result(SliceInsert(alloc, allocatePoolIndex(alloc, nw), nw),
           MapSet(subs, nw, newPoolData), Nil, NoPrefix)

\* allocateSubnetL, were it to check the parent for overlap on a sub-range
\* request as well
allocateSubnetLChecked(alloc, subs, nw, sub) ==
    IF nw \notin DOMAIN subs /\ overlaps(alloc, nw)
    THEN Result(alloc, subs, ErrPoolOverlap, NoPrefix)
    ELSE LET r == IF nw \in DOMAIN subs
                  THEN Result(alloc, subs, Nil, NoPrefix)
                  ELSE LET a == allocatePool(alloc, subs, nw)
                       IN  [a EXCEPT !.subnets[nw].autoRelease = (sub # NoPrefix)]
         IN  IF sub = NoPrefix THEN r
             ELSE [r EXCEPT !.subnets[nw].children = @ \cup {sub}]

\* addrSpace.allocateSubnetL
allocateSubnetL(alloc, subs, nw, sub) ==
    IF sub = NoPrefix
    THEN IF overlaps(alloc, nw)
         THEN Result(alloc, subs, ErrPoolOverlap, NoPrefix)
         ELSE allocatePool(alloc, subs, nw)
    ELSE LET r  == IF nw \in DOMAIN subs
                   THEN Result(alloc, subs, Nil, NoPrefix)
                   ELSE LET a == allocatePool(alloc, subs, nw)
                        IN  [a EXCEPT !.subnets[nw].autoRelease = TRUE]
         IN  [r EXCEPT !.subnets[nw].children = @ \cup {sub}]

\* allocateSubnet, were it to refuse an allocated parent only when no
\* sub-range is given
allocateSubnetNoChildTest(alloc, subs, nw, sub) ==
    IF nw \in DOMAIN subs /\ sub = NoPrefix
    THEN Result(alloc, subs, ErrPoolOverlap, NoPrefix)
    ELSE allocateSubnetL(alloc, subs, nw, sub)

\* addrSpace.allocateSubnet
allocateSubnet(alloc, subs, nw, sub) ==
    IF nw \in DOMAIN subs /\ (sub = NoPrefix \/ sub \in subs[nw].children)
    THEN Result(alloc, subs, ErrPoolOverlap, NoPrefix)
    ELSE allocateSubnetL(alloc, subs, nw, sub)

\* deallocate, were it to leave the pool in the map
deallocateListOnly(alloc, subs, nw) ==
    LET hits == {i \in 1..Len(alloc) : alloc[i] = nw}
    IN  IF hits = {} THEN Result(alloc, subs, Nil, NoPrefix)
        ELSE LET i == CHOOSE k \in hits : \A j \in hits : k <= j
             IN  Result(SliceDelete(alloc, i - 1), subs, Nil, NoPrefix)

\* addrSpace.deallocate: drops the first entry equal to nw and its pool.
deallocate(alloc, subs, nw) ==
    LET hits == {i \in 1..Len(alloc) : alloc[i] = nw}
    IN  IF hits = {} THEN Result(alloc, subs, Nil, NoPrefix)
        ELSE LET i == CHOOSE k \in hits : \A j \in hits : k <= j
             IN  Result(SliceDelete(alloc, i - 1), MapDelete(subs, nw), Nil, NoPrefix)

\* releaseSubnet, were it to take a sub-range the parent does not have for
\* one it has
releaseSubnetNoChildTest(alloc, subs, nw, sub) ==
    IF nw \notin DOMAIN subs THEN Result(alloc, subs, ErrBadPool, NoPrefix)
    ELSE LET s1 == IF sub # NoPrefix
                   THEN [subs EXCEPT ![nw].children = @ \ {sub}]
                   ELSE [subs EXCEPT ![nw].autoRelease = TRUE]
         IN  IF s1[nw].children = {} /\ s1[nw].autoRelease
             THEN deallocate(alloc, s1, nw)
             ELSE Result(alloc, s1, Nil, NoPrefix)

\* addrSpace.releaseSubnet
releaseSubnet(alloc, subs, nw, sub) ==
    IF nw \notin DOMAIN subs THEN Result(alloc, subs, ErrBadPool, NoPrefix)
    ELSE IF sub # NoPrefix /\ sub \notin subs[nw].children
    THEN Result(alloc, subs, ErrBadPool, NoPrefix)
    ELSE LET s1 == IF sub # NoPrefix
                   THEN [subs EXCEPT ![nw].children = @ \ {sub}]
                   ELSE [subs EXCEPT ![nw].autoRelease = TRUE]
         IN  IF s1[nw].children = {} /\ s1[nw].autoRelease
             THEN deallocate(alloc, s1, nw)
             ELSE Result(alloc, s1, Nil, NoPrefix)

----------------------------------------------------------------------------
(* the shuffler *)

\* The nil *shuffler.
NoShuffler == [i |-> -1, permuts |-> <<>>]

newShuffler(imax) == [i |-> imax, permuts |-> [p \in {} |-> 0]]

\* shuffler.atPos
atPos(s, pos) == IF pos \in DOMAIN s.permuts THEN s.permuts[pos] ELSE pos

\* pickRandom, were it to read the last position before it decrements i
pickRandomOffByOne(s, pos) ==
    IF s.i = 0 THEN [s |-> s, val |-> 0, ok |-> FALSE]
    ELSE LET s1 == [s EXCEPT !.i = @ - 1]
             s2 == [s1 EXCEPT !.permuts = MapSet(@, pos, atPos(s, s.i))]
         IN  [s |-> [s2 EXCEPT !.permuts = MapDelete(@, s2.i + 1)],
              val |-> atPos(s1, pos), ok |-> TRUE]

\* pickRandom, were it to leave the permutation of the drawn position alone
pickRandomNoPermut(s, pos) ==
    IF s.i = 0 THEN [s |-> s, val |-> 0, ok |-> FALSE]
    ELSE LET s1 == [s EXCEPT !.i = @ - 1]
         IN  [s |-> [s1 EXCEPT !.permuts = MapDelete(@, s1.i + 1)],
              val |-> atPos(s1, pos), ok |-> TRUE]

\* shuffler.pickRandom, with pos the number that s.r.Int63n(s.i) returns
pickRandom(s, pos) ==
    IF s.i = 0 THEN [s |-> s, val |-> 0, ok |-> FALSE]
    ELSE LET s1 == [s EXCEPT !.i = @ - 1]
             s2 == [s1 EXCEPT !.permuts = MapSet(@, pos, atPos(s1, s1.i))]
         IN  [s |-> [s2 EXCEPT !.permuts = MapDelete(@, s2.i + 1)],
              val |-> atPos(s1, pos), ok |-> TRUE]

\* giveBack, were it to increment i before it records the value
giveBackAfterInc(s, v) == [i |-> s.i + 1, permuts |-> MapSet(s.permuts, s.i + 1, v)]

\* shuffler.giveBack
\* shuffler.giveBack, were it to record the value at the first position
giveBackAtFirst(s, v) == [i |-> s.i + 1, permuts |-> MapSet(s.permuts, 0, v)]

giveBack(s, v) == [i |-> s.i + 1, permuts |-> MapSet(s.permuts, s.i, v)]

----------------------------------------------------------------------------
(* host addresses *)

\* Number of bits of the bitmap of pool nw: one per host identifier.
bitmapSize(nw) == Pow2(BitLen - nw.bits)

AddrResult(a, s, e, ip) ==
    [allocated |-> a, subnets |-> s, err |-> e, prefix |-> NoPrefix, addr |-> ip]

\* getAddress: sets a bit of the bitmap 'addrs' of pool nw and returns its
\* ordinal: the bit of the preferred address when one is given, else a free
\* bit of the window of the sub-range (of the whole pool without one).  With
\* serial it is the lowest free bit of the window, else the first free bit
\* met scanning from the bitmap's cursor curr forward, wrapping once.
getAddress(nw, addrs, prefAddress, sub, serial, curr) ==
    LET window == IF sub = NoPrefix THEN 0..(bitmapSize(nw) - 1)
                  ELSE HostID(sub.addr, nw.bits)..HostID(LastAddr(sub), nw.bits)
        free   == window \ addrs
        ahead  == {o \in free : o >= curr}
        from   == IF serial \/ ahead = {} THEN free ELSE ahead
    IN  IF prefAddress # NoAddr
        THEN IF HostID(prefAddress, nw.bits) \in addrs
             THEN [err |-> ErrIPAlreadyAllocated, ordinal |-> 0]
             ELSE [err |-> Nil, ordinal |-> HostID(prefAddress, nw.bits)]
        ELSE IF free = {} THEN [err |-> ErrNoAvailableIPs, ordinal |-> 0]
        ELSE [err |-> Nil, ordinal |-> CHOOSE o \in from : \A q \in from : o <= q]

\* requestAddress, were it to test the preferred address after the bit is set
requestAddressLateRangeTest(alloc, subs, nw, sub, prefAddress, serial, curr) ==
    IF nw \notin DOMAIN subs THEN AddrResult(alloc, subs, NotFound, NoAddr)
    ELSE IF sub # NoPrefix /\ sub \notin subs[nw].children
    THEN AddrResult(alloc, subs, NotFound, NoAddr)
    ELSE LET g  == getAddress(nw, subs[nw].addrs, prefAddress, sub, serial, curr)
             s1 == [subs EXCEPT ![nw].addrs = @ \cup {g.ordinal}]
         IN  IF g.err # Nil THEN AddrResult(alloc, subs, g.err, NoAddr)
             ELSE IF prefAddress # NoAddr /\ ~Contains(nw, prefAddress)
             THEN AddrResult(alloc, s1, ErrIPOutOfRange, NoAddr)
             ELSE AddrResult(alloc, s1, Nil, MaskAddr(nw.addr, nw.bits) + g.ordinal)

\* requestAddress, were it to take any preferred address for one of the pool
requestAddressNoRangeTest(alloc, subs, nw, sub, prefAddress, serial, curr) ==
    IF nw \notin DOMAIN subs THEN AddrResult(alloc, subs, NotFound, NoAddr)
    ELSE IF sub # NoPrefix /\ sub \notin subs[nw].children
    THEN AddrResult(alloc, subs, NotFound, NoAddr)
    ELSE LET g == getAddress(nw, subs[nw].addrs, prefAddress, sub, serial, curr)
         IN  IF g.err # Nil THEN AddrResult(alloc, subs, g.err, NoAddr)
             ELSE AddrResult(alloc, [subs EXCEPT ![nw].addrs = @ \cup {g.ordinal}], Nil,
                             MaskAddr(nw.addr, nw.bits) + g.ordinal)

\* addrSpace.requestAddress
requestAddress(alloc, subs, nw, sub, prefAddress, serial, curr) ==
    IF nw \notin DOMAIN subs THEN AddrResult(alloc, subs, NotFound, NoAddr)
    ELSE IF prefAddress # NoAddr /\ ~Contains(nw, prefAddress)
    THEN AddrResult(alloc, subs, ErrIPOutOfRange, NoAddr)
    ELSE IF sub # NoPrefix /\ sub \notin subs[nw].children
    THEN AddrResult(alloc, subs, NotFound, NoAddr)
    ELSE LET g == getAddress(nw, subs[nw].addrs, prefAddress, sub, serial, curr)
         IN  IF g.err # Nil THEN AddrResult(alloc, subs, g.err, NoAddr)
             ELSE AddrResult(alloc, [subs EXCEPT ![nw].addrs = @ \cup {g.ordinal}], Nil,
                             MaskAddr(nw.addr, nw.bits) + g.ordinal)

\* releaseAddress, were it not to test the address for validity
releaseAddressNoValidTest(alloc, subs, nw, sub, address) ==
    IF nw \notin DOMAIN subs THEN AddrResult(alloc, subs, NotFound, NoAddr)
    ELSE IF sub # NoPrefix /\ sub \notin subs[nw].children
    THEN AddrResult(alloc, subs, NotFound, NoAddr)
    ELSE IF ~Contains(nw, address) THEN AddrResult(alloc, subs, ErrIPOutOfRange, NoAddr)
    ELSE AddrResult(alloc, [subs EXCEPT ![nw].addrs = @ \ {HostID(address, nw.bits)}],
                    Nil, NoAddr)

\* releaseAddress, were it to take the host identifier within the sub-range
releaseAddressSubHost(alloc, subs, nw, sub, address) ==
    IF nw \notin DOMAIN subs THEN AddrResult(alloc, subs, NotFound, NoAddr)
    ELSE IF sub # NoPrefix /\ sub \notin subs[nw].children
    THEN AddrResult(alloc, subs, NotFound, NoAddr)
    ELSE IF address = NoAddr THEN AddrResult(alloc, subs, InvalidParameter, NoAddr)
    ELSE IF ~Contains(nw, address) THEN AddrResult(alloc, subs, ErrIPOutOfRange, NoAddr)
    ELSE LET bits == IF sub # NoPrefix THEN sub.bits ELSE nw.bits
         IN  AddrResult(alloc, [subs EXCEPT ![nw].addrs = @ \ {HostID(address, bits)}],
                        Nil, NoAddr)

\* addrSpace.releaseAddress
releaseAddress(alloc, subs, nw, sub, address) ==
    IF nw \notin DOMAIN subs THEN AddrResult(alloc, subs, NotFound, NoAddr)
    ELSE IF sub # NoPrefix /\ sub \notin subs[nw].children
    THEN AddrResult(alloc, subs, NotFound, NoAddr)
    ELSE IF address = NoAddr THEN AddrResult(alloc, subs, InvalidParameter, NoAddr)
    ELSE IF ~Contains(nw, address) THEN AddrResult(alloc, subs, ErrIPOutOfRange, NoAddr)
    ELSE AddrResult(alloc, [subs EXCEPT ![nw].addrs = @ \ {HostID(address, nw.bits)}],
                    Nil, NoAddr)

----------------------------------------------------------------------------
(* the double cursor and the dynamic subnet picker *)

\* doubleCursor.Get: the lower head of a and b (b on equal addresses) and
\* the side it came from; indices ia, ib count from 0.
dcGet(a, b, ia, ib, lastA) ==
    IF ia < Len(a) /\ ib < Len(b)
    THEN IF a[ia + 1].addr < b[ib + 1].addr
         THEN [p |-> a[ia + 1], lastA |-> TRUE]
         ELSE [p |-> b[ib + 1], lastA |-> FALSE]
    ELSE IF ia < Len(a) THEN [p |-> a[ia + 1], lastA |-> TRUE]
    ELSE IF ib < Len(b) THEN [p |-> b[ib + 1], lastA |-> FALSE]
    ELSE [p |-> NoPrefix, lastA |-> lastA]

\* doubleCursor.Inc, were it to forget which list Get read from
dcIncAlwaysA(st) == [st EXCEPT !.ia = @ + 1]

\* doubleCursor.Inc
dcInc(st) == IF st.lastA THEN [st EXCEPT !.ia = @ + 1] ELSE [st EXCEPT !.ib = @ + 1]

\* The locals of allocatePredefinedPool at its entry.
pickInit ==
    [ia |-> 0, ib |-> 0, lastA |-> FALSE, pdfID |-> 0, partialOverlap |-> FALSE,
     prevAlloc |-> NoPrefix, done |-> FALSE, err |-> Nil, prefix |-> NoPrefix, at |-> 0]

pickFound(st, next, at) == [st EXCEPT !.done = TRUE, !.err = Nil, !.prefix = next, !.at = at]

pickFail(st) == [st EXCEPT !.done = TRUE, !.err = ErrNoMoreSubnets]

\* allocatePredefinedPool after the loop, were it not to take its last
\* chance on a candidate that was never subnetted
pickTailNoLastChance(a, pdfs, st) ==
    IF st.pdfID >= Len(pdfs) THEN pickFail(st)
    ELSE LET pdf  == pdfs[st.pdfID + 1]
             next == PrefixAfter(st.prevAlloc, pdf.Size)
         IN  IF st.partialOverlap /\ PdfOverlaps(pdf, next)
             THEN pickFound(st, next, st.ia)
             ELSE pickFail(st)

\* allocatePredefinedPool, after the loop: both lists are exhausted.
pickTail(a, pdfs, st) ==
    IF st.pdfID >= Len(pdfs) THEN pickFail(st)
    ELSE LET pdf  == pdfs[st.pdfID + 1]
             next == PrefixAfter(st.prevAlloc, pdf.Size)
         IN  IF st.partialOverlap /\ PdfOverlaps(pdf, next)
             THEN pickFound(st, next, st.ia)
             ELSE LET id == IF st.partialOverlap THEN st.pdfID + 1 ELSE st.pdfID
                  IN  IF id < Len(pdfs)
                      THEN pickFound([st EXCEPT !.pdfID = id], FirstPrefix(pdfs[id + 1]), Len(a))
                      ELSE pickFail([st EXCEPT !.pdfID = id])

\* One iteration of the loop, were the candidate kept when nothing fits
\* after prevAlloc
pickStepSameCandidate(a, b, pdfs, st) ==
    LET g  == dcGet(a, b, st.ia, st.ib, st.lastA)
        al == g.p
        s0 == [st EXCEPT !.lastA = g.lastA]
    IN  IF al = NoPrefix THEN pickTail(a, pdfs, s0)
        ELSE IF s0.pdfID >= Len(pdfs) THEN pickFail(s0)
        ELSE LET pdf == pdfs[s0.pdfID + 1]
                 s1  == dcInc(s0)
                 afterPrev == PrefixAfter(s0.prevAlloc, pdf.Size)
             IN  IF Overlaps(al, pdf.Base)
                 THEN IF al.bits <= pdf.Base.bits
                      THEN [s1 EXCEPT !.partialOverlap = FALSE, !.prevAlloc = NoPrefix,
                                      !.pdfID = @ + 1]
                      ELSE IF ~s0.partialOverlap /\ Distance(FirstPrefix(pdf), al, pdf.Size) >= 1
                      THEN pickFound(s1, FirstPrefix(pdf), s1.ia)
                      ELSE IF s0.partialOverlap /\ Distance(afterPrev, al, pdf.Size) >= 1
                      THEN pickFound(s1, afterPrev, s1.ia)
                      ELSE IF LastAddr(al) = LastAddr(pdf.Base)
                      THEN [s1 EXCEPT !.partialOverlap = FALSE, !.prevAlloc = NoPrefix,
                                      !.pdfID = @ + 1]
                      ELSE [s1 EXCEPT !.partialOverlap = TRUE, !.prevAlloc = al]
                 ELSE IF s0.partialOverlap
                 THEN IF PdfOverlaps(pdf, afterPrev)
                      THEN pickFound(s0, afterPrev, s0.ia)
                      ELSE [s0 EXCEPT !.partialOverlap = FALSE, !.prevAlloc = al]
                 ELSE IF pdf.Base.addr < al.addr
                 THEN pickFound(s0, PrefixFrom(pdf.Base.addr, pdf.Size), s0.ia)
                 ELSE [s1 EXCEPT !.prevAlloc = al]

\* allocatePredefinedPool: one iteration of the loop.
pickStep(a, b, pdfs, st) ==
    LET g  == dcGet(a, b, st.ia, st.ib, st.lastA)
        al == g.p
        s0 == [st EXCEPT !.lastA = g.lastA]
    IN  IF al = NoPrefix THEN pickTail(a, pdfs, s0)
        ELSE IF s0.pdfID >= Len(pdfs) THEN pickFail(s0)
        ELSE LET pdf == pdfs[s0.pdfID + 1]
                 s1  == dcInc(s0)
                 afterPrev == PrefixAfter(s0.prevAlloc, pdf.Size)
             IN  IF Overlaps(al, pdf.Base)
                 THEN IF al.bits <= pdf.Base.bits
                      THEN [s1 EXCEPT !.partialOverlap = FALSE, !.prevAlloc = NoPrefix,
                                      !.pdfID = @ + 1]
                      ELSE IF ~s0.partialOverlap /\ Distance(FirstPrefix(pdf), al, pdf.Size) >= 1
                      THEN pickFound(s1, FirstPrefix(pdf), s1.ia)
                      ELSE IF s0.partialOverlap /\ Distance(afterPrev, al, pdf.Size) >= 1
                      THEN pickFound(s1, afterPrev, s1.ia)
                      ELSE IF LastAddr(al) = LastAddr(pdf.Base)
                      THEN [s1 EXCEPT !.partialOverlap = FALSE, !.prevAlloc = NoPrefix,
                                      !.pdfID = @ + 1]
                      ELSE [s1 EXCEPT !.partialOverlap = TRUE, !.prevAlloc = al]
                 ELSE IF s0.partialOverlap
                 THEN IF PdfOverlaps(pdf, afterPrev)
                      THEN pickFound(s0, afterPrev, s0.ia)
                      ELSE [s0 EXCEPT !.partialOverlap = FALSE, !.pdfID = @ + 1]
                 ELSE IF pdf.Base.addr < al.addr
                 THEN pickFound(s0, PrefixFrom(pdf.Base.addr, pdf.Size), s0.ia)
                 ELSE [s1 EXCEPT !.prevAlloc = al]

RECURSIVE pickRun(_, _, _, _)
pickRun(a, b, pdfs, st) == IF st.done THEN st ELSE pickRun(a, b, pdfs, pickStep(a, b, pdfs, st))

\* addrSpace.allocatePredefinedPool
allocatePredefinedPool(alloc, subs, pdfs, reserved) ==
    LET st == pickRun(alloc, SortFunc(reserved), pdfs, pickInit)
    IN  IF st.err # Nil THEN Result(alloc, subs, st.err, NoPrefix)
        ELSE Result(SliceInsert(alloc, st.at, st.prefix),
                    MapSet(subs, st.prefix, newPoolData), Nil, st.prefix)

----------------------------------------------------------------------------
(* inputs *)

Half    == Pow2(BitLen - 1)
Quarter == Pow2(BitLen - 2)
Eighth  == Pow2(BitLen - 3)

\* Parent prefixes the callers ask for.
NwInputs ==
    { PrefixFrom(0, 1),           \* holds the first two candidates
      PrefixFrom(Eighth, 3),      \* last subnet of the first candidate
      PrefixFrom(Half, 2) }       \* first two subnets of the third candidate

\* The sub-range the callers ask for: it lies inside PrefixFrom(Half, 2) and
\* outside the other parents.
SubInputs == { PrefixFrom(Half, 3) }

\* The reserved lists the callers pass: none, one address inside
\* PrefixFrom(Half, 2), the whole third candidate, and an unsorted pair.
ReservedInputs ==
    { <<>>,
      <<PrefixFrom(Half + 1, BitLen)>>,
      <<PrefixFrom(Half, 1)>>,
      <<PrefixFrom(Half + 1, BitLen), PrefixFrom(0, 2)>> }

NoCall == [op |-> "none", nw |-> NoPrefix, sub |-> NoPrefix, reserved |-> <<>>,
           addr |-> NoAddr]
NoRet  == [err |-> Nil, prefix |-> NoPrefix, addr |-> NoAddr]

\* No caller holds the mutex.
Unlocked == 0

\* Nothing was drawn: imax is the size the shuffler was made with, out the
\* values drawn and not given back, fresh tells that nothing was given back
\* yet, op, pos, val and ok are the last call and its result, and again
\* tells that it gave back the value the call before it had drawn.
NoDraws == [imax |-> 0, out |-> {}, fresh |-> TRUE, op |-> "none", pos |-> 0,
            val |-> 0, ok |-> FALSE, again |-> FALSE]

\* No doubleCursor was made; no function was called.
NoCursor == [a |-> <<>>, b |-> <<>>, ia |-> 0, ib |-> 0, lastA |-> FALSE,
             out |-> <<>>, pc |-> "none"]
NoCalc == [op |-> "none"]

\* No allocatePredefinedPool is running.
NoPick == [pc |-> "none", b |-> <<>>, st |-> pickInit]

----------------------------------------------------------------------------
(* the state machine *)

\* The address space as newAddrSpace returns it, with no caller.
InitAddrSpace ==
    /\ allocated = <<>>
    /\ subnets = [p \in {} |-> newPoolData]
    /\ call = NoCall
    /\ ret = NoRet
    /\ mu = Unlocked
    /\ predefined = Predefined
    /\ picks = <<>>
    /\ picker = NoPick

Init ==
    /\ InitAddrSpace
    /\ shuffler = NoShuffler
    /\ drawn = NoDraws
    /\ callers = <<>>
    /\ dc = NoCursor
    /\ calc = NoCalc

Commit(r) ==
    /\ r.err # Nil \/ Len(r.allocated) <= MaxAlloc
    /\ allocated' = r.allocated
    /\ subnets' = r.subnets
    /\ ret' = [err |-> r.err, prefix |-> r.prefix, addr |-> r.addr]
    /\ UNCHANGED <<shuffler, drawn, mu, callers, dc, calc,
                 predefined, picks, picker>>

AllocateSubnet(nw, sub) ==
    /\ Commit(allocateSubnet(allocated, subnets, nw, sub))
    /\ call' = [NoCall EXCEPT !.op = "allocateSubnet", !.nw = nw, !.sub = sub]

AllocatePredefinedPool(reserved) ==
    /\ Commit(allocatePredefinedPool(allocated, subnets, predefined, reserved))
    /\ call' = [NoCall EXCEPT !.op = "allocatePredefinedPool", !.reserved = reserved]

ReleaseSubnet(nw, sub) ==
    /\ Commit(releaseSubnet(allocated, subnets, nw, sub))
    /\ call' = [NoCall EXCEPT !.op = "releaseSubnet", !.nw = nw, !.sub = sub]

Next ==
    \/ \E nw \in NwInputs, sub \in SubInputs \cup {NoPrefix} : AllocateSubnet(nw, sub)
    \/ \E reserved \in ReservedInputs : AllocatePredefinedPool(reserved)
    \/ \E nw \in NwInputs \cup Range(allocated), sub \in SubInputs \cup {NoPrefix} :
           ReleaseSubnet(nw, sub)

Spec == Init /\ [][Next]_vars

\* The address space used without sub-ranges.
NextNoChild ==
    \/ \E nw \in NwInputs : AllocateSubnet(nw, NoPrefix)
    \/ \E reserved \in ReservedInputs : AllocatePredefinedPool(reserved)
    \/ \E nw \in NwInputs \cup Range(allocated) : ReleaseSubnet(nw, NoPrefix)

SpecNoChild == Init /\ [][NextNoChild]_vars

\* The address space used with parents that are subnets of the first
\* candidate, each asked for with and without one of two sub-ranges.
CascadeNwInputs == { PrefixFrom(0, BitLen - 1), PrefixFrom(2, BitLen - 1) }
CascadeSubInputs == { PrefixFrom(0, BitLen), PrefixFrom(1, BitLen) }

NextCascade ==
    \/ \E nw \in CascadeNwInputs, sub \in CascadeSubInputs \cup {NoPrefix} :
           AllocateSubnet(nw, sub)
    \/ AllocatePredefinedPool(<<>>)
    \/ \E nw \in CascadeNwInputs, sub \in CascadeSubInputs \cup {NoPrefix} :
           ReleaseSubnet(nw, sub)

SpecCascade == Init /\ [][NextCascade]_vars

----------------------------------------------------------------------------
(* the address space with its host addresses *)

\* The parent, sub-range, reserved lists and addresses the callers pass: a
\* parent of four addresses in the third candidate and its lower half; no
\* reserved prefix, and one reserved prefix over each candidate; no address,
\* address 0 outside the parent and the second address of the parent.
AddrNwInputs == { PrefixFrom(Half, BitLen - 2) }
AddrSubInputs == { PrefixFrom(Half, BitLen - 1) }
AddrReservedInputs ==
    { <<>>, <<PrefixFrom(0, 2), PrefixFrom(Quarter, 2), PrefixFrom(Half, 1)>> }
AddrInputs == { NoAddr, 0, Half + 1 }

\* The ways to ask pool nw for an address, out of the preferred addresses
\* 'prefs': a preferred address (the options and the cursor of the bitmap
\* then play no part), no preference with the serial option, and no
\* preference without it at each position of the cursor.
RequestInputs(nw, prefs) ==
    { [prefAddress |-> a, serial |-> TRUE, curr |-> 0] : a \in prefs \cup {NoAddr} }
      \cup { [prefAddress |-> NoAddr, serial |-> FALSE, curr |-> c] :
                c \in 0..(bitmapSize(nw) - 1) }

\* The addresses allocated in pool nw.
AllocatedAddrs(subs, nw) ==
    IF nw \in DOMAIN subs
    THEN { MaskAddr(nw.addr, nw.bits) + o : o \in subs[nw].addrs }
    ELSE {}

RequestAddress(nw, sub, prefAddress, serial, curr) ==
    /\ Commit(requestAddress(allocated, subnets, nw, sub, prefAddress, serial, curr))
    /\ call' = [NoCall EXCEPT !.op = "requestAddress", !.nw = nw, !.sub = sub,
                              !.addr = prefAddress]

ReleaseAddress(nw, sub, address) ==
    /\ Commit(releaseAddress(allocated, subnets, nw, sub, address))
    /\ call' = [NoCall EXCEPT !.op = "releaseAddress", !.nw = nw, !.sub = sub,
                              !.addr = address]

NextAddr ==
    \/ \E nw \in AddrNwInputs, sub \in AddrSubInputs \cup {NoPrefix} : AllocateSubnet(nw, sub)
    \/ \E reserved \in AddrReservedInputs : AllocatePredefinedPool(reserved)
    \/ \E nw \in AddrNwInputs \cup Range(allocated), sub \in AddrSubInputs \cup {NoPrefix} :
           ReleaseSubnet(nw, sub)
    \/ \E nw \in AddrNwInputs, sub \in AddrSubInputs \cup {NoPrefix} :
           \E in \in RequestInputs(nw, AddrInputs) :
               RequestAddress(nw, sub, in.prefAddress, in.serial, in.curr)
    \/ \E nw \in AddrNwInputs, sub \in AddrSubInputs \cup {NoPrefix} :
           \E address \in AddrInputs \cup AllocatedAddrs(subnets, nw) :
               ReleaseAddress(nw, sub, address)

SpecAddr == Init /\ [][NextAddr]_vars

----------------------------------------------------------------------------
(* the shuffler and its callers *)

InitShuffler ==
    /\ InitAddrSpace
    /\ callers = <<>>
    /\ dc = NoCursor
    /\ calc = NoCalc
    /\ \E imax \in 0..MaxImax :
         /\ shuffler = newShuffler(imax)
         /\ drawn = [NoDraws EXCEPT !.imax = imax]

\* A call of pickRandom in which the generator returns pos.
PickRandom(pos) ==
    LET r == pickRandom(shuffler, pos)
    IN  /\ shuffler' = r.s
        /\ drawn' = [drawn EXCEPT !.op = "pickRandom", !.pos = pos, !.val = r.val,
                                   !.ok = r.ok, !.again = FALSE,
                                   !.out = IF r.ok THEN @ \cup {r.val} ELSE @]
        /\ UNCHANGED <<allocated, subnets, call, ret, mu, callers, dc, calc,
                 predefined, picks, picker>>

\* A call of giveBack with a value that was drawn and not given back.
GiveBack(v) ==
    /\ shuffler' = giveBack(shuffler, v)
    /\ drawn' = [drawn EXCEPT !.op = "giveBack", !.pos = 0, !.val = v, !.ok = TRUE,
                               !.again = (drawn.op = "pickRandom" /\ drawn.ok
                                            /\ drawn.val = v),
                               !.fresh = FALSE, !.out = @ \ {v}]
    /\ UNCHANGED <<allocated, subnets, call, ret, mu, callers, dc, calc,
                 predefined, picks, picker>>

NextShuffler ==
    \/ \E pos \in 0..(IF shuffler.i > 0 THEN shuffler.i - 1 ELSE 0) : PickRandom(pos)
    \/ \E v \in drawn.out : GiveBack(v)

SpecShuffler == InitShuffler /\ [][NextShuffler]_vars

----------------------------------------------------------------------------
(* concurrent callers of the address space *)

Callers == 1..MaxCallers

\* The calls the concurrent callers make: two overlapping parents, the
\* release of the larger one, a dynamic pool, and the first address of the
\* smaller parent, requested with the serial option and released.
ConcCalls ==
    { [NoCall EXCEPT !.op = "allocateSubnet", !.nw = PrefixFrom(0, 1)],
      [NoCall EXCEPT !.op = "allocateSubnet", !.nw = PrefixFrom(Eighth, BitLen - 1)],
      [NoCall EXCEPT !.op = "releaseSubnet", !.nw = PrefixFrom(0, 1)],
      [NoCall EXCEPT !.op = "allocatePredefinedPool"],
      [NoCall EXCEPT !.op = "requestAddress", !.nw = PrefixFrom(Eighth, BitLen - 1)],
      [NoCall EXCEPT !.op = "releaseAddress", !.nw = PrefixFrom(Eighth, BitLen - 1),
                     !.addr = Eighth] }

\* What call c does to the address space and returns when it runs alone.
Apply(alloc, subs, c) ==
    CASE c.op = "allocateSubnet" -> allocateSubnet(alloc, subs, c.nw, c.sub)
      [] c.op = "allocatePredefinedPool" ->
             allocatePredefinedPool(alloc, subs, Predefined, c.reserved)
      [] c.op = "releaseSubnet" -> releaseSubnet(alloc, subs, c.nw, c.sub)
      [] c.op = "requestAddress" -> requestAddress(alloc, subs, c.nw, c.sub, c.addr, TRUE, 0)
      [] c.op = "releaseAddress" -> releaseAddress(alloc, subs, c.nw, c.sub, c.addr)

\* A caller outside any call.
Idle == [pc |-> "idle", c |-> NoCall, r |-> Result(<<>>, <<>>, Nil, NoPrefix)]

InitConc ==
    /\ InitAddrSpace
    /\ shuffler = NoShuffler
    /\ drawn = NoDraws
    /\ callers = [p \in Callers |-> Idle]
    /\ dc = NoCursor
    /\ calc = NoCalc

\* aSpace.mu.Lock(), were requestAddress to go on without the mutex
canLockUnlessRequest(m, c) == m = Unlocked \/ c.op = "requestAddress"

\* aSpace.mu.Lock() returns when no caller holds the mutex.
canLock(m, c) == m = Unlocked

\* Caller p enters call c and comes to aSpace.mu.Lock().
Invoke(p, c) ==
    /\ callers[p].pc = "idle"
    /\ callers' = [callers EXCEPT ![p] = [Idle EXCEPT !.pc = "lock", !.c = c]]
    /\ UNCHANGED <<allocated, subnets, call, ret, shuffler, drawn, mu, dc, calc,
                 predefined, picks, picker>>

\* aSpace.mu.Lock() returns in caller p.
Lock(p) ==
    /\ callers[p].pc = "lock"
    /\ canLock(mu, callers[p].c)
    /\ LET r == Apply(allocated, subnets, callers[p].c)
       IN  r.err # Nil \/ Len(r.allocated) <= MaxAlloc
    /\ mu' = p
    /\ callers' = [callers EXCEPT ![p].pc = "held"]
    /\ UNCHANGED <<allocated, subnets, call, ret, shuffler, drawn, dc, calc,
                 predefined, picks, picker>>

\* Caller p reads the address space and works out what to write and return.
Read(p) ==
    /\ callers[p].pc = "held"
    /\ callers' = [callers EXCEPT ![p].pc = "computed",
                                  ![p].r = Apply(allocated, subnets, callers[p].c)]
    /\ UNCHANGED <<allocated, subnets, call, ret, shuffler, drawn, mu, dc, calc,
                 predefined, picks, picker>>

\* Caller p writes the address space and returns; the deferred
\* aSpace.mu.Unlock() runs.
WriteUnlock(p) ==
    /\ callers[p].pc = "computed"
    /\ allocated' = callers[p].r.allocated
    /\ subnets' = callers[p].r.subnets
    /\ call' = callers[p].c
    /\ ret' = [err |-> callers[p].r.err, prefix |-> callers[p].r.prefix,
               addr |-> callers[p].r.addr]
    /\ mu' = Unlocked
    /\ callers' = [callers EXCEPT ![p] = Idle]
    /\ UNCHANGED <<shuffler, drawn, dc, calc,
                 predefined, picks, picker>>

NextConc ==
    \/ \E p \in Callers, c \in ConcCalls : Invoke(p, c)
    \/ \E p \in Callers : Lock(p)
    \/ \E p \in Callers : Read(p)
    \/ \E p \in Callers : WriteUnlock(p)

SpecConc == InitConc /\ [][NextConc]_vars

----------------------------------------------------------------------------
(* the double cursor on its own *)

\* The prefixes the two lists are made of; two of them have the same address.
CursorPrefixes ==
    {PrefixFrom(0, 1), PrefixFrom(0, 2), PrefixFrom(Quarter, 2), PrefixFrom(Half, 1)}

\* "Both 'a' and 'b' have to be sorted beforehand": the lists of at most
\* MaxList prefixes in non-decreasing order of address.
SortedLists ==
    UNION { { l \in [1..n -> CursorPrefixes] :
                \A k \in 1..(n - 1) : l[k].addr <= l[k + 1].addr } : n \in 0..MaxList }

\* newDoubleCursor(a, b, cmp), cmp being the order of the addresses
InitCursor ==
    /\ InitAddrSpace
    /\ shuffler = NoShuffler
    /\ drawn = NoDraws
    /\ callers = <<>>
    /\ calc = NoCalc
    /\ \E a \in SortedLists, b \in SortedLists :
         dc = [NoCursor EXCEPT !.a = a, !.b = b, !.pc = "Get"]

\* dc.Get(): out records what the calls returned, in order.
DcGet ==
    /\ dc.pc = "Get"
    /\ Len(dc.out) < Len(dc.a) + Len(dc.b) + MaxExtraGets
    /\ LET g == dcGet(dc.a, dc.b, dc.ia, dc.ib, dc.lastA)
       IN  dc' = [dc EXCEPT !.lastA = g.lastA, !.out = Append(@, g.p), !.pc = "Inc"]
    /\ UNCHANGED <<allocated, subnets, call, ret, shuffler, drawn, mu, callers, calc,
                 predefined, picks, picker>>

\* dc.Inc()
DcInc ==
    /\ dc.pc = "Inc"
    /\ dc' = [dcInc(dc) EXCEPT !.pc = "Get"]
    /\ UNCHANGED <<allocated, subnets, call, ret, shuffler, drawn, mu, callers, calc,
                 predefined, picks, picker>>

NextCursor == DcGet \/ DcInc

SpecCursor == InitCursor /\ [][NextCursor]_vars

----------------------------------------------------------------------------
(* newAddrSpace *)

\* netip.Prefix.Masked
Masked(p) == IF IsValid(p) THEN PrefixFrom(MaskAddr(p.addr, p.bits), p.bits) ELSE NoPrefix

\* The first loop of newAddrSpace, past its test: every Base is masked.
maskBases(pdfs) == [i \in 1..Len(pdfs) |-> [pdfs[i] EXCEPT !.Base = Masked(@)]]

\* slices.SortFunc(predefined, ...Compare(a.Base, b.Base)): the order of the
\* entries that compare equal is not specified, so every sorted arrangement
\* of the list is a possible outcome.
SortedByBase(pdfs) ==
    { [i \in 1..Len(pdfs) |-> pdfs[f[i]]] :
        f \in { g \in [1..Len(pdfs) -> 1..Len(pdfs)] :
                  /\ \A i, j \in 1..Len(pdfs) : i # j => g[i] # g[j]
                  /\ \A i \in 1..(Len(pdfs) - 1) :
                        Compare(pdfs[g[i]].Base, pdfs[g[i + 1]].Base) <= 0 } }

\* The second loop of newAddrSpace, were it to discard nothing
discardNone(pdfs, kept) == kept \o pdfs

\* The second loop of newAddrSpace: an entry that overlaps 'last', the last
\* entry that was kept, is deleted from the list.
RECURSIVE discardOverlapping(_, _)
discardOverlapping(pdfs, kept) ==
    IF pdfs = <<>> THEN kept
    ELSE IF kept # <<>> /\ PdfOverlaps(kept[Len(kept)], Head(pdfs).Base)
         THEN discardOverlapping(Tail(pdfs), kept)
         ELSE discardOverlapping(Tail(pdfs), Append(kept, Head(pdfs)))

ErrPrefixZero == "newAddrSpace: prefix zero found"

\* newAddrSpace(predefined), 'sorted' being what slices.SortFunc made of the
\* masked list.
newAddrSpace(pdfs, sorted) ==
    IF \E i \in 1..Len(pdfs) : ~IsValid(pdfs[i].Base)
    THEN [err |-> ErrPrefixZero, predefined |-> <<>>]
    ELSE [err |-> Nil, predefined |-> discardOverlapping(sorted, <<>>)]

\* The predefined networks newAddrSpace is given: Bases with host bits set,
\* Bases inside other Bases, one Base twice with two Sizes, a Base that is
\* its own only subnet, the zero prefix.
PdfInputs ==
    { [Base |-> PrefixFrom(0, 1), Size |-> 3],
      [Base |-> PrefixFrom(0, 2), Size |-> 3],
      [Base |-> PrefixFrom(0, 2), Size |-> 4],
      [Base |-> PrefixFrom(Quarter + 1, 2), Size |-> 3],
      [Base |-> PrefixFrom(Half, 1), Size |-> 3],
      [Base |-> PrefixFrom(Quarter, 2), Size |-> 2],
      [Base |-> PrefixFrom(Half + Quarter + 1, 2), Size |-> 3],
      [Base |-> NoPrefix, Size |-> 3] }

PdfLists == UNION { [1..n -> PdfInputs] : n \in 0..MaxPdfs }

InitCalc ==
    /\ InitAddrSpace
    /\ shuffler = NoShuffler
    /\ drawn = NoDraws
    /\ callers = <<>>
    /\ dc = NoCursor
    /\ calc = NoCalc

\* A call of newAddrSpace.
NewAddrSpace ==
    /\ calc = NoCalc
    /\ \E pdfs \in PdfLists :
         \E sorted \in SortedByBase(maskBases(pdfs)) :
            calc' = [op |-> "newAddrSpace", pdfs |-> pdfs,
                     ret |-> newAddrSpace(pdfs, sorted)]
    /\ UNCHANGED <<allocated, subnets, call, ret, shuffler, drawn, mu, callers, dc,
                 predefined, picks, picker>>

----------------------------------------------------------------------------
(* PoolIDFromString *)

\* A string is the sequence of its characters.
Slash == "/"
DigitChars == <<"0", "1", "2", "3", "4", "5", "6", "7", "8", "9">>
IsDigit(c) == c \in Range(DigitChars)
DigitVal(c) == (CHOOSE i \in 1..Len(DigitChars) : DigitChars[i] = c) - 1

\* strings.Split(str, "/"): 'cur' is the component being read, 'acc' the
\* components read so far.
RECURSIVE SplitFrom(_, _, _)
SplitFrom(str, cur, acc) ==
    IF str = <<>> THEN Append(acc, cur)
    ELSE IF Head(str) = Slash THEN SplitFrom(Tail(str), <<>>, Append(acc, cur))
    ELSE SplitFrom(Tail(str), Append(cur, Head(str)), acc)

Split(str) == SplitFrom(str, <<>>, <<>>)

\* strconv.Atoi on a string of digits.
RECURSIVE Atoi(_, _)
Atoi(str, n) == IF str = <<>> THEN n ELSE Atoi(Tail(str), 10 * n + DigitVal(Head(str)))

\* A decimal numeral without sign nor leading zero.
IsNumeral(str) ==
    /\ str # <<>>
    /\ \A i \in 1..Len(str) : IsDigit(str[i])
    /\ Len(str) > 1 => str[1] # "0"

\* netip.ParseAddr: the text of an address is its numeral.
ParseAddr(str) ==
    IF IsNumeral(str) /\ Atoi(str, 0) < Pow2(BitLen)
    THEN [err |-> Nil, addr |-> Atoi(str, 0)]
    ELSE [err |-> "ParseAddr", addr |-> NoAddr]

\* The position of the last "/" of str; 0 when there is none.
LastSlash(str) ==
    IF \E i \in 1..Len(str) : str[i] = Slash
    THEN CHOOSE i \in 1..Len(str) :
             str[i] = Slash /\ \A j \in (i + 1)..Len(str) : str[j] # Slash
    ELSE 0

\* netip.ParsePrefix: address, "/", length; the address is not masked.
ParsePrefix(str) ==
    LET i    == LastSlash(str)
        ip   == ParseAddr(SubSeq(str, 1, i - 1))
        bits == SubSeq(str, i + 1, Len(str))
    IN  IF i = 0 \/ ip.err # Nil \/ ~IsNumeral(bits) \/ Atoi(bits, 0) > BitLen
        THEN [err |-> "ParsePrefix", prefix |-> NoPrefix]
        ELSE [err |-> Nil, prefix |-> PrefixFrom(ip.addr, Atoi(bits, 0))]

\* The zero PoolID.
NoPoolID == [AddressSpace |-> <<>>, Subnet |-> NoPrefix, ChildSubnet |-> NoPrefix]

\* PoolIDFromString, were it to take the child of any string of more than
\* three components
PoolIDFromStringAnyLength(str) ==
    LET p      == Split(str)
        parent == ParsePrefix(p[2] \o <<Slash>> \o p[3])
        child  == ParsePrefix(p[4] \o <<Slash>> \o p[5])
        pID    == [NoPoolID EXCEPT !.AddressSpace = p[1], !.Subnet = parent.prefix]
    IN  IF str = <<>> \/ Len(p) < 3 THEN [err |-> InvalidParameter, pID |-> NoPoolID]
        ELSE IF parent.err # Nil THEN [err |-> InvalidParameter, pID |-> pID]
        ELSE IF Len(p) >= 5
             THEN [err |-> IF child.err # Nil THEN InvalidParameter ELSE Nil,
                   pID |-> [pID EXCEPT !.ChildSubnet = child.prefix]]
             ELSE [err |-> Nil, pID |-> pID]

\* PoolIDFromString
PoolIDFromString(str) ==
    LET p      == Split(str)
        parent == ParsePrefix(p[2] \o <<Slash>> \o p[3])
        child  == ParsePrefix(p[4] \o <<Slash>> \o p[5])
        pID    == [NoPoolID EXCEPT !.AddressSpace = p[1], !.Subnet = parent.prefix]
    IN  IF str = <<>> THEN [err |-> InvalidParameter, pID |-> NoPoolID]
        ELSE IF Len(p) # 3 /\ Len(p) # 5 THEN [err |-> InvalidParameter, pID |-> NoPoolID]
        ELSE IF parent.err # Nil THEN [err |-> InvalidParameter, pID |-> pID]
        ELSE IF Len(p) = 5
             THEN [err |-> IF child.err # Nil THEN InvalidParameter ELSE Nil,
                   pID |-> [pID EXCEPT !.ChildSubnet = child.prefix]]
             ELSE [err |-> Nil, pID |-> pID]

\* The strings PoolIDFromString is given: at most MaxParts pieces without
\* "/" (empty, a name, numerals within and beyond the length of an
\* address), with a "/" between one piece and the next.
Pieces == { <<>>, <<"a">>, <<"0">>, <<"3">>, <<"1", "2">> }

RECURSIVE JoinSlash(_)
JoinSlash(parts) ==
    IF Len(parts) = 1 THEN parts[1]
    ELSE parts[1] \o <<Slash>> \o JoinSlash(Tail(parts))

PartLists == UNION { [1..n -> Pieces] : n \in 1..MaxParts }

\* A call of PoolIDFromString on the string made of 'parts'.
CallPoolIDFromString ==
    /\ calc = NoCalc
    /\ \E parts \in PartLists :
         calc' = [op |-> "PoolIDFromString", parts |-> parts, str |-> JoinSlash(parts),
                  ret |-> PoolIDFromString(JoinSlash(parts))]
    /\ UNCHANGED <<allocated, subnets, call, ret, shuffler, drawn, mu, callers, dc,
                 predefined, picks, picker>>

\* strconv.Itoa for a number that is not negative.
RECURSIVE Itoa(_)
Itoa(n) ==
    IF n < 10 THEN <<DigitChars[n + 1]>>
    ELSE Itoa(n \div 10) \o <<DigitChars[(n % 10) + 1]>>

\* netip.Prefix.String: the text of the address, "/", the length.
PrefixString(p) ==
    IF ~IsValid(p) THEN <<"i", "n", "v", "a", "l", "i", "d">>
    ELSE Itoa(p.addr) \o <<Slash>> \o Itoa(p.bits)

\* PoolID.String, were it to leave the child out
PoolIDStringParentOnly(id) == id.AddressSpace \o <<Slash>> \o PrefixString(id.Subnet)

\* PoolID.String
PoolIDString(id) ==
    IF id.ChildSubnet = NoPrefix
    THEN id.AddressSpace \o <<Slash>> \o PrefixString(id.Subnet)
    ELSE id.AddressSpace \o <<Slash>> \o PrefixString(id.Subnet)
             \o <<Slash>> \o PrefixString(id.ChildSubnet)

\* The PoolIDs that are printed and read back: an address space without
\* "/" (empty, a name, a numeral), every valid prefix as Subnet, no
\* ChildSubnet or a valid one.
PoolIDInputs ==
    [AddressSpace : {<<>>, <<"a", "b">>, <<"1">>},
     Subnet : { PrefixFrom(a, b) : a \in 0..(Pow2(BitLen) - 1), b \in 0..BitLen },
     ChildSubnet : {NoPrefix} \cup
                   { PrefixFrom(a, b) : a \in {0, Half + 1, Pow2(BitLen) - 1},
                                        b \in {0, BitLen - 1, BitLen} }]

\* id.String() is given to PoolIDFromString.
CallString ==
    /\ calc = NoCalc
    /\ \E id \in PoolIDInputs :
         calc' = [op |-> "String", id |-> id, str |-> PoolIDString(id),
                  ret |-> PoolIDFromString(PoolIDString(id))]
    /\ UNCHANGED <<allocated, subnets, call, ret, shuffler, drawn, mu, callers, dc,
                   predefined, picks, picker>>

----------------------------------------------------------------------------
(* ipbits *)

Families == {Len4, Len16}

\* The addresses of a family the functions of ipbits are given: all of the
\* narrow family; of the wide one those around zero, around the range of a
\* uint64 and around the middle and the end of the family.
AddrsOf(w) ==
    IF w = Len4 THEN 0..(Pow2(w) - 1)
    ELSE {0, 1, Pow2(Len64) - 1, Pow2(Len64), Pow2(Len64) + Pow2(Len4) + 1,
          Pow2(w - 1), Pow2(w - 1) + Pow2(Len64 + 1) + 2, Pow2(w) - 1}

PrefixesOf(w) == {NoPrefix} \cup { PrefixFrom(a, b) : a \in AddrsOf(w), b \in {1, w} }

\* The numbers added to an address: within and beyond the narrow family's
\* width, up to the largest uint64.
Uint64Inputs == {0, 1, 2, Pow2(Len4) - 1, Pow2(Len4) + 1, Pow2(Len64) - 1}

CallDistance ==
    /\ calc = NoCalc
    /\ \E w1 \in Families, w2 \in Families :
         \E p1 \in PrefixesOf(w1), p2 \in PrefixesOf(w2), sz \in 0..w1 :
            calc' = [op |-> "Distance", w1 |-> w1, p1 |-> p1, w2 |-> w2, p2 |-> p2,
                     sz |-> sz, ret |-> DistanceW(w1, p1, w2, p2, sz)]
    /\ UNCHANGED <<allocated, subnets, call, ret, shuffler, drawn, mu, callers, dc,
                 predefined, picks, picker>>

CallAdd ==
    /\ calc = NoCalc
    /\ \E w \in Families :
         \E ip \in AddrsOf(w), x \in Uint64Inputs, shift \in 0..(w + 1) :
            calc' = [op |-> "Add", w |-> w, ip |-> ip, x |-> x, shift |-> shift,
                     ret |-> Add(w, ip, x, shift)]
    /\ UNCHANGED <<allocated, subnets, call, ret, shuffler, drawn, mu, callers, dc,
                 predefined, picks, picker>>

CallSub ==
    /\ calc = NoCalc
    /\ \E w \in Families :
         \E ip \in AddrsOf(w), x \in Uint64Inputs, shift \in 0..(w + 1) :
            calc' = [op |-> "Sub", w |-> w, ip |-> ip, x |-> x, shift |-> shift,
                     ret |-> Sub(w, ip, x, shift)]
    /\ UNCHANGED <<allocated, subnets, call, ret, shuffler, drawn, mu, callers, dc,
                 predefined, picks, picker>>

\* Field is called where its result is defined: u <= v <= BitLen() and
\* v - u <= 64.
CallField ==
    /\ calc = NoCalc
    /\ \E w \in Families :
         \E ip \in AddrsOf(w), u \in 0..w, v \in 0..w :
            /\ u <= v /\ v - u <= Len64
            /\ calc' = [op |-> "Field", w |-> w, ip |-> ip, u |-> u, v |-> v,
                        ret |-> Field(w, ip, u, v)]
    /\ UNCHANGED <<allocated, subnets, call, ret, shuffler, drawn, mu, callers, dc,
                 predefined, picks, picker>>

NextCalc ==
    \/ NewAddrSpace
    \/ CallPoolIDFromString
    \/ CallDistance
    \/ CallAdd
    \/ CallSub
    \/ CallField
    \/ CallString

SpecCalc == InitCalc /\ [][NextCalc]_vars

----------------------------------------------------------------------------
(* dynamic allocations in a row, on a new address space *)

\* newAddrSpace(pdfs) for a list of valid predefined networks; nothing is
\* allocated.
InitExhaust ==
    /\ allocated = <<>>
    /\ subnets = [p \in {} |-> newPoolData]
    /\ call = NoCall
    /\ ret = NoRet
    /\ mu = Unlocked
    /\ shuffler = NoShuffler
    /\ drawn = NoDraws
    /\ callers = <<>>
    /\ dc = NoCursor
    /\ calc = NoCalc
    /\ picks = <<>>
    /\ picker = NoPick
    /\ \E pdfs \in PdfLists :
         \E sorted \in SortedByBase(maskBases(pdfs)) :
            /\ newAddrSpace(pdfs, sorted).err = Nil
            /\ predefined = newAddrSpace(pdfs, sorted).predefined

\* allocatePredefinedPool with nothing reserved; the callers give up after
\* MaxExtraPicks refusals.
AllocateNext ==
    /\ Cardinality({ k \in 1..Len(picks) : picks[k].err # Nil }) < MaxExtraPicks
    /\ Len(allocated) <= Pow2(BitLen)
    /\ LET r == allocatePredefinedPool(allocated, subnets, predefined, <<>>)
       IN  /\ allocated' = r.allocated
           /\ subnets' = r.subnets
           /\ ret' = [err |-> r.err, prefix |-> r.prefix, addr |-> r.addr]
           /\ picks' = Append(picks, [err |-> r.err, prefix |-> r.prefix])
    /\ call' = [NoCall EXCEPT !.op = "allocatePredefinedPool"]
    /\ UNCHANGED <<shuffler, drawn, mu, callers, dc, calc, predefined, picker>>

NextExhaust == AllocateNext

SpecExhaust == InitExhaust /\ [][NextExhaust]_vars

----------------------------------------------------------------------------
(* allocatePredefinedPool, iteration by iteration *)

\* The prefixes of the allocation lists the loop is run on.
PickPrefixes ==
    { PrefixFrom(0, 1), PrefixFrom(0, 3), PrefixFrom(Eighth, 3), PrefixFrom(Half, 2),
      PrefixFrom(Half + Quarter, 3) }

\* The allocation lists: every list of at most MaxAlloc of these prefixes,
\* in any order, as allocatePredefinedPool can leave the list in any order.
PickLists == UNION { [1..n -> PickPrefixes] : n \in 0..MaxAlloc }

PickReserved ==
    { <<>>,
      <<PrefixFrom(Half, 1)>>,
      <<PrefixFrom(Half + 1, BitLen), PrefixFrom(0, 2)>>,
      <<PrefixFrom(Eighth, 3), PrefixFrom(Half + Quarter, 2)>>,
      <<PrefixFrom(Half, 1), PrefixFrom(0, 1)>>,
      <<PrefixFrom(Half, 2), PrefixFrom(Eighth, 3), PrefixFrom(0, 3)>> }

PickPredefined ==
    { <<>>,
      Predefined,
      << [Base |-> PrefixFrom(0, 2), Size |-> 4] >>,
      << [Base |-> PrefixFrom(0, 1), Size |-> 3], [Base |-> PrefixFrom(Half, 1), Size |-> 2] >> }

\* allocatePredefinedPool(reserved) is entered: reserved is sorted, the
\* cursor is made, the locals are zero.
InitPick ==
    /\ \E a \in PickLists :
         /\ allocated = a
         /\ subnets = [p \in Range(a) |-> newPoolData]
    /\ \E reserved \in PickReserved :
         /\ call = [NoCall EXCEPT !.op = "allocatePredefinedPool", !.reserved = reserved]
         /\ picker = [pc |-> "loop", b |-> SortFunc(reserved), st |-> pickInit]
    /\ predefined \in PickPredefined
    /\ ret = NoRet
    /\ mu = Unlocked
    /\ shuffler = NoShuffler
    /\ drawn = NoDraws
    /\ callers = <<>>
    /\ dc = NoCursor
    /\ calc = NoCalc
    /\ picks = <<>>

\* One iteration of the loop; the iteration in which the cursor is exhausted
\* goes on to the end of the function.
PickIterate ==
    /\ picker.pc = "loop"
    /\ ~picker.st.done
    /\ picker' = [picker EXCEPT !.st = pickStep(allocated, picker.b, predefined, picker.st)]
    /\ UNCHANGED <<allocated, subnets, call, ret, shuffler, drawn, mu, callers, dc, calc,
                   predefined, picks>>

\* allocatePredefinedPool returns: the prefix was inserted in the list and
\* the map, or the error is returned.
PickReturn ==
    /\ picker.pc = "loop"
    /\ picker.st.done
    /\ LET st == picker.st
       IN  /\ allocated' = IF st.err = Nil THEN SliceInsert(allocated, st.at, st.prefix)
                           ELSE allocated
           /\ subnets' = IF st.err = Nil THEN MapSet(subnets, st.prefix, newPoolData)
                         ELSE subnets
           /\ ret' = [NoRet EXCEPT !.err = st.err, !.prefix = st.prefix]
    /\ picker' = [picker EXCEPT !.pc = "returned"]
    /\ UNCHANGED <<call, shuffler, drawn, mu, callers, dc, calc, predefined, picks>>

NextPick == PickIterate \/ PickReturn

SpecPick == InitPick /\ [][NextPick]_vars

----------------------------------------------------------------------------
(* what the picker is to return *)

\* The subnets a candidate is split into.
SubnetsOf(pdf) ==
    { PrefixFrom(pdf.Base.addr + k * Pow2(BitLen - pdf.Size), pdf.Size) :
        k \in 0..(Pow2(pdf.Size - pdf.Base.bits) - 1) }

\* The subnets of the candidates that overlap no entry of A and none of R.
FreeSubnets(A, R) ==
    { p \in UNION { SubnetsOf(Predefined[k]) : k \in 1..Len(Predefined) } :
        \A e \in Range(A) \cup Range(R) : ~Overlaps(p, e) }

Picked == call'.op = "allocatePredefinedPool" /\ ret'.err = Nil

----------------------------------------------------------------------------
(* properties *)

\* C1: Non-overlap.  Used without sub-ranges, the address space never holds
\* two overlapping prefixes in its allocation list.
NonOverlap ==
    \A i, j \in 1..Len(allocated) : i # j => ~Overlaps(allocated[i], allocated[j])

\* C2: Sorted allocation list.  After every operation the allocation list is
\* in increasing order of address and holds no entry twice.
SortedAllocationList ==
    /\ \A i \in 1..(Len(allocated) - 1) : allocated[i].addr <= allocated[i + 1].addr
    /\ \A i, j \in 1..Len(allocated) : i # j => allocated[i] # allocated[j]

\* C3: Picker soundness.  A prefix returned by allocatePredefinedPool is one
\* of the subnets of a candidate and overlaps no entry of the allocation list
\* as it was before the call and no reserved prefix.
PickerSoundness ==
    [][Picked => ret'.prefix \in FreeSubnets(allocated, call'.reserved)]_vars

\* C4: Picker completeness.  allocatePredefinedPool returns ErrNoMoreSubnets
\* exactly when no subnet of a candidate is free of overlap with the
\* allocation list and the reserved prefixes.
PickerCompleteness ==
    [][call'.op = "allocatePredefinedPool" =>
         (ret'.err = ErrNoMoreSubnets <=> FreeSubnets(allocated, call'.reserved) = {})]_vars

\* C5: Picker minimality.  A prefix returned by allocatePredefinedPool is the
\* free subnet with the lowest address.
PickerMinimality ==
    [][Picked =>
         /\ ret'.prefix \in FreeSubnets(allocated, call'.reserved)
         /\ \A p \in FreeSubnets(allocated, call'.reserved) : ret'.prefix.addr <= p.addr]_vars

\* C6: allocateSubnet on an allocated parent, with no sub-range or with a
\* sub-range the parent already has, fails with ErrPoolOverlap and changes
\* nothing.
AlreadyAllocatedRefused ==
    [][(/\ call'.op = "allocateSubnet"
        /\ call'.nw \in DOMAIN subnets
        /\ (call'.sub = NoPrefix \/ call'.sub \in subnets[call'.nw].children))
       => (ret'.err = ErrPoolOverlap /\ allocated' = allocated /\ subnets' = subnets)]_vars

\* C6 witness: a sub-range request was refused because the parent has it.
AlreadyAllocatedRefusedSeen ==
    /\ call.op = "allocateSubnet"
    /\ ret.err = ErrPoolOverlap
    /\ call.sub # NoPrefix
    /\ call.nw \in DOMAIN subnets
    /\ call.sub \in subnets[call.nw].children

\* C7: allocateSubnet without a sub-range fails with ErrPoolOverlap and
\* changes nothing when the parent overlaps an entry of the allocation list;
\* otherwise the parent joins the list and the map, with no children and
\* autoRelease unset.
ParentOverlapChecked ==
    [][(call'.op = "allocateSubnet" /\ call'.sub = NoPrefix)
       => IF \E e \in Range(allocated) : Overlaps(e, call'.nw)
          THEN ret'.err = ErrPoolOverlap /\ allocated' = allocated /\ subnets' = subnets
          ELSE /\ ret'.err = Nil
               /\ call'.nw \in Range(allocated')
               /\ call'.nw \in DOMAIN subnets'
               /\ subnets'[call'.nw].children = {}
               /\ ~subnets'[call'.nw].autoRelease]_vars

\* C7 witness: a parent was refused for overlapping another prefix than
\* itself.
ParentOverlapCheckedSeen ==
    /\ call.op = "allocateSubnet"
    /\ call.sub = NoPrefix
    /\ ret.err = ErrPoolOverlap
    /\ call.nw \notin DOMAIN subnets
    /\ \E e \in Range(allocated) : e # call.nw /\ Overlaps(e, call.nw)

\* C8: Sub-range asymmetry.  allocateSubnet with a sub-range never checks the
\* parent for overlap: a new parent is created with autoRelease set and the
\* sub-range as its only child; an allocated parent gets the sub-range added
\* and keeps its autoRelease flag, and the allocation list stays as it was.
SubRangeAsymmetry ==
    [][(call'.op = "allocateSubnet" /\ call'.sub # NoPrefix)
       => /\ call'.nw \notin DOMAIN subnets =>
               /\ ret'.err = Nil
               /\ call'.nw \in Range(allocated')
               /\ call'.nw \in DOMAIN subnets'
               /\ subnets'[call'.nw].children = {call'.sub}
               /\ subnets'[call'.nw].autoRelease
          /\ (call'.nw \in DOMAIN subnets /\ call'.sub \notin subnets[call'.nw].children) =>
               /\ ret'.err = Nil
               /\ allocated' = allocated
               /\ subnets' = [subnets EXCEPT ![call'.nw].children = @ \cup {call'.sub}]]_vars

\* C8 witness: a sub-range request created a parent that overlaps another
\* allocated prefix.
SubRangeAsymmetrySeen ==
    /\ call.op = "allocateSubnet"
    /\ call.sub # NoPrefix
    /\ ret.err = Nil
    /\ call.nw \in DOMAIN subnets
    /\ subnets[call.nw].children = {call.sub}
    /\ subnets[call.nw].autoRelease
    /\ \E e \in Range(allocated) : e # call.nw /\ Overlaps(e, call.nw)

\* C9: Containment.  Every child of a pool lies inside its parent and has a
\* strictly greater prefix length.
Containment ==
    \A nw \in DOMAIN subnets : \A c \in subnets[nw].children :
        c.bits > nw.bits /\ MaskAddr(c.addr, nw.bits) = MaskAddr(nw.addr, nw.bits)

\* C10: releaseSubnet on an existing pool sets autoRelease (no sub-range) or
\* removes the sub-range; the pool leaves both the allocation list and the
\* map exactly when it is then without children and autoRelease is set, and
\* stays in both otherwise.
ReleaseDeallocates ==
    [][(/\ call'.op = "releaseSubnet"
        /\ call'.nw \in DOMAIN subnets
        /\ (call'.sub = NoPrefix \/ call'.sub \in subnets[call'.nw].children))
       => LET nw == call'.nw
              ch == IF call'.sub = NoPrefix THEN subnets[nw].children
                    ELSE subnets[nw].children \ {call'.sub}
              ar == IF call'.sub = NoPrefix THEN TRUE ELSE subnets[nw].autoRelease
          IN  /\ ret'.err = Nil
              /\ IF ch = {} /\ ar
                 THEN nw \notin DOMAIN subnets' /\ nw \notin Range(allocated')
                 ELSE /\ nw \in Range(allocated')
                      /\ nw \in DOMAIN subnets'
                      /\ subnets'[nw].children = ch
                      /\ subnets'[nw].autoRelease = ar]_vars

\* C11: releaseSubnet fails with ErrBadPool when the parent is not a key of
\* the pool map, or when a sub-range is given that is not one of the parent's
\* children; the allocation list, the pool map and every pool's children and
\* autoRelease flag are then as before the call.
BadPoolRefused ==
    [][(/\ call'.op = "releaseSubnet"
        /\ \/ call'.nw \notin DOMAIN subnets
           \/ call'.sub # NoPrefix /\ call'.sub \notin subnets[call'.nw].children)
       => (ret'.err = ErrBadPool /\ allocated' = allocated /\ subnets' = subnets)]_vars

\* C11 witness: the release of a sub-range was refused by a parent that
\* exists and does not have it.
BadPoolRefusedSeen ==
    /\ call.op = "releaseSubnet"
    /\ ret.err = ErrBadPool
    /\ call.sub # NoPrefix
    /\ call.nw \in DOMAIN subnets
    /\ call.sub \notin subnets[call.nw].children

\* C12: Cascade.  A parent created by a sub-range request has autoRelease
\* set and that sub-range as its only child; from then on, over every
\* further addition and release of a sub-range, it stays in the allocation
\* list and the pool map while a child is left, and the releaseSubnet that
\* removes its last child takes it out of both in that same step.
Cascade ==
    [][(/\ call'.op \in {"allocateSubnet", "releaseSubnet"}
        /\ call'.sub # NoPrefix)
       => LET nw == call'.nw
              ch == IF ret'.err # Nil THEN subnets[nw].children
                    ELSE IF call'.op = "allocateSubnet"
                    THEN subnets[nw].children \cup {call'.sub}
                    ELSE subnets[nw].children \ {call'.sub}
          IN  /\ (call'.op = "allocateSubnet" /\ nw \notin DOMAIN subnets) =>
                   /\ nw \in DOMAIN subnets' /\ nw \in Range(allocated')
                   /\ subnets'[nw].autoRelease
                   /\ subnets'[nw].children = {call'.sub}
              /\ (nw \in DOMAIN subnets /\ subnets[nw].autoRelease
                    /\ subnets[nw].children # {}) =>
                   IF ch = {}
                   THEN nw \notin DOMAIN subnets' /\ nw \notin Range(allocated')
                   ELSE /\ nw \in DOMAIN subnets' /\ nw \in Range(allocated')
                        /\ subnets'[nw].autoRelease
                        /\ subnets'[nw].children = ch]_vars

\* C13: After a successful releaseSubnet of a parent without a sub-range,
\* every requestAddress on that parent fails with NotFound until the parent
\* is allocated again by allocateSubnet or allocatePredefinedPool: the
\* release leaves the parent out of the pool map, only those two operations
\* put a parent into the map, and requestAddress on a parent that is not in
\* the map fails with NotFound.
NotFoundAfterRelease ==
    [][/\ (call'.op = "releaseSubnet" /\ call'.sub = NoPrefix /\ ret'.err = Nil)
          => call'.nw \notin DOMAIN subnets'
       /\ (DOMAIN subnets' \ DOMAIN subnets # {})
          => call'.op \in {"allocateSubnet", "allocatePredefinedPool"}
       /\ (call'.op = "requestAddress" /\ call'.nw \notin DOMAIN subnets)
          => ret'.err = NotFound]_vars

\* C13, amended: the same for the successful releaseSubnet without a
\* sub-range of a parent that has no children.
NotFoundAfterReleaseNoChildren ==
    [][/\ (/\ call'.op = "releaseSubnet" /\ call'.sub = NoPrefix /\ ret'.err = Nil
           /\ subnets[call'.nw].children = {})
          => call'.nw \notin DOMAIN subnets'
       /\ (DOMAIN subnets' \ DOMAIN subnets # {})
          => call'.op \in {"allocateSubnet", "allocatePredefinedPool"}
       /\ (call'.op = "requestAddress" /\ call'.nw \notin DOMAIN subnets)
          => ret'.err = NotFound]_vars

\* C13 witness: an allocated parent was released without a sub-range and is
\* gone from the map.
NotFoundAfterReleaseSeen ==
    /\ call.op = "releaseSubnet"
    /\ call.sub = NoPrefix
    /\ ret.err = Nil
    /\ call.nw \in AddrNwInputs
    /\ call.nw \notin DOMAIN subnets

\* C14: requestAddress fails with NotFound whenever the parent is not
\* allocated or a given sub-range is not among its children, whatever the
\* preferred address is; with the pool and the sub-range there and a
\* preferred address outside the parent it fails with ErrIPOutOfRange; each
\* of these failures leaves the bitmaps and the address space as they were.
RequestAddressRefused ==
    [][call'.op = "requestAddress"
       => LET nw      == call'.nw
              unknown == \/ nw \notin DOMAIN subnets
                         \/ call'.sub # NoPrefix /\ call'.sub \notin subnets[nw].children
              outside == call'.addr # NoAddr /\ ~Contains(nw, call'.addr)
          IN  /\ unknown
                   => ret'.err = NotFound /\ allocated' = allocated /\ subnets' = subnets
              /\ (~unknown /\ outside)
                   => ret'.err = ErrIPOutOfRange /\ allocated' = allocated
                      /\ subnets' = subnets]_vars

\* C14, amended: requestAddress fails with NotFound when the parent is not
\* allocated; else with ErrIPOutOfRange when a preferred address outside the
\* parent is given, whether the sub-range is among the children or not; else
\* with NotFound when a given sub-range is not among the children; each of
\* these failures leaves the bitmaps and the address space as they were.
RequestAddressRefusedInOrder ==
    [][call'.op = "requestAddress"
       => LET nw      == call'.nw
              outside == call'.addr # NoAddr /\ ~Contains(nw, call'.addr)
              nochild == call'.sub # NoPrefix /\ call'.sub \notin subnets[nw].children
          IN  /\ nw \notin DOMAIN subnets
                   => ret'.err = NotFound /\ allocated' = allocated /\ subnets' = subnets
              /\ (nw \in DOMAIN subnets /\ outside)
                   => ret'.err = ErrIPOutOfRange /\ allocated' = allocated
                      /\ subnets' = subnets
              /\ (nw \in DOMAIN subnets /\ ~outside /\ nochild)
                   => ret'.err = NotFound /\ allocated' = allocated
                      /\ subnets' = subnets]_vars

\* C14 witness: a request with a preferred address outside the parent and a
\* sub-range the parent does not have was refused with ErrIPOutOfRange by a
\* pool that holds an address.
RequestAddressRefusedSeen ==
    /\ call.op = "requestAddress"
    /\ ret.err = ErrIPOutOfRange
    /\ call.nw \in DOMAIN subnets
    /\ call.sub # NoPrefix
    /\ call.sub \notin subnets[call.nw].children
    /\ subnets[call.nw].addrs # {}

\* C15: releaseAddress fails with NotFound when the parent is not allocated
\* or a given sub-range is not among its children, else with
\* InvalidParameter when the address is the zero address, else with
\* ErrIPOutOfRange when the address is not in the parent; no bit of any
\* bitmap changes on these failures; otherwise it succeeds and clears
\* exactly the bit HostID(address) of the parent's bitmap.
ReleaseAddressContract ==
    [][call'.op = "releaseAddress"
       => LET nw      == call'.nw
              unknown == \/ nw \notin DOMAIN subnets
                         \/ call'.sub # NoPrefix /\ call'.sub \notin subnets[nw].children
          IN  /\ allocated' = allocated
              /\ IF unknown THEN ret'.err = NotFound /\ subnets' = subnets
                 ELSE IF call'.addr = NoAddr
                 THEN ret'.err = InvalidParameter /\ subnets' = subnets
                 ELSE IF ~Contains(nw, call'.addr)
                 THEN ret'.err = ErrIPOutOfRange /\ subnets' = subnets
                 ELSE /\ ret'.err = Nil
                      /\ subnets' = [subnets EXCEPT
                            ![nw].addrs = @ \ {HostID(call'.addr, nw.bits)}]]_vars

\* C15 witness: an address was released from a pool that still holds
\* another.
ReleaseAddressContractSeen ==
    /\ call.op = "releaseAddress"
    /\ ret.err = Nil
    /\ call.nw \in DOMAIN subnets
    /\ HostID(call.addr, call.nw.bits) \notin subnets[call.nw].addrs
    /\ subnets[call.nw].addrs # {}

\* C16: Address conservation.  For any allocated pool in any state of its
\* bitmap, a successful requestAddress that returns address a, followed at
\* once by releaseAddress of a on the same pool, succeeds and leaves the set
\* of the allocated addresses of the pool (and the whole address space) as
\* it was before the request.
AddressConservation ==
    \A nw \in DOMAIN subnets :
      \A sub \in subnets[nw].children \cup {NoPrefix} :
        \A in \in RequestInputs(nw, {a \in 0..(Pow2(BitLen) - 1) : Contains(nw, a)}) :
          LET req == requestAddress(allocated, subnets, nw, sub,
                                    in.prefAddress, in.serial, in.curr)
              rel == releaseAddress(req.allocated, req.subnets, nw, sub, req.addr)
          IN  req.err = Nil =>
                /\ rel.err = Nil
                /\ AllocatedAddrs(rel.subnets, nw) = AllocatedAddrs(subnets, nw)
                /\ rel.subnets = subnets
                /\ rel.allocated = allocated

\* C16 witness: an address requested in a sub-range of a pool that held
\* another address was released again.
AddressConservationSeen ==
    /\ call.op = "releaseAddress"
    /\ ret.err = Nil
    /\ call.sub # NoPrefix
    /\ call.nw \in DOMAIN subnets
    /\ call.sub \in subnets[call.nw].children
    /\ Contains(call.sub, call.addr)
    /\ call.addr \notin AllocatedAddrs(subnets, call.nw)
    /\ Cardinality(AllocatedAddrs(subnets, call.nw)) >= 2

\* C18: Failure atomicity.  Every call of allocateSubnet,
\* allocatePredefinedPool, releaseSubnet, requestAddress or releaseAddress
\* that returns an error leaves the allocation list, the pool map and every
\* pool's children, autoRelease flag and bitmap as they were before the call;
\* allocatePredefinedPool returning ErrNoMoreSubnets inserts nothing.
FailureAtomicity ==
    [][/\ ret'.err # Nil => (allocated' = allocated /\ subnets' = subnets)
       /\ (call'.op = "allocatePredefinedPool" /\ ret'.err = ErrNoMoreSubnets)
            => (Len(allocated') = Len(allocated) /\ DOMAIN subnets' = DOMAIN subnets)]_vars

\* C18 witness: allocatePredefinedPool returned ErrNoMoreSubnets on an
\* address space that holds a pool with an address and a child.
FailureAtomicitySeen ==
    /\ call.op = "allocatePredefinedPool"
    /\ ret.err = ErrNoMoreSubnets
    /\ \E nw \in DOMAIN subnets : subnets[nw].addrs # {} /\ subnets[nw].children # {}

\* C17: Shuffler conservation.  From any state of the shuffler with i > 0, a
\* pickRandom that returns v followed by giveBack(v) leads to a state from
\* which the next pickRandom returns, for every random position, the value
\* it would have returned from the state before the pick.
ShufflerConservation ==
    shuffler.i > 0 =>
      \A pos \in 0..(shuffler.i - 1) :
        LET pick == pickRandom(shuffler, pos)
            back == giveBack(pick.s, pick.val)
        IN  /\ pick.ok
            /\ back.i = shuffler.i
            /\ \A q \in 0..(shuffler.i - 1) :
                 pickRandom(back, q).val = pickRandom(shuffler, q).val

\* C17, amended: from any state of the shuffler with i > 0, a pickRandom at
\* position pos that returns v followed by giveBack(v) leads to a state with
\* the same i, from which the next pickRandom returns for every random
\* position the value it would have returned from the state before the pick
\* once the positions pos and i - 1 are exchanged: the values that can be
\* drawn are the same, at the same positions but for these two.
ShufflerConservationExchanged ==
    shuffler.i > 0 =>
      \A pos \in 0..(shuffler.i - 1) :
        LET pick == pickRandom(shuffler, pos)
            back == giveBack(pick.s, pick.val)
            last == shuffler.i - 1
            exchanged(q) == IF q = pos THEN last ELSE IF q = last THEN pos ELSE q
        IN  /\ pick.ok
            /\ back.i = shuffler.i
            /\ \A q \in 0..(shuffler.i - 1) :
                 pickRandom(back, q).val = pickRandom(shuffler, exchanged(q)).val

\* C17 witness: the value a pickRandom had just drawn from another position
\* than the last was given back.
ShufflerConservationSeen ==
    /\ drawn.op = "giveBack"
    /\ drawn.again
    /\ shuffler.i > 1
    /\ atPos(shuffler, shuffler.i - 1) = drawn.val
    /\ \E q \in 0..(shuffler.i - 2) : atPos(shuffler, q) # q

\* C20: Shuffler full cycle.  On a shuffler made for imax >= 0 and not given
\* anything back, every pickRandom while i > 0 returns ok = true and a value
\* of [0, imax) that was not returned before, so that the imax calls
\* together return every integer of [0, imax) once; every pickRandom with
\* i = 0 returns (0, false) and leaves the shuffler as it is.
ShufflerFullCycle ==
    [][drawn'.op = "pickRandom"
       => /\ (drawn.fresh /\ shuffler.i > 0) =>
               /\ drawn'.ok
               /\ drawn'.val \in (0..(drawn.imax - 1)) \ drawn.out
               /\ shuffler'.i = shuffler.i - 1
               /\ Cardinality(drawn'.out) = drawn.imax - shuffler'.i
               /\ shuffler'.i = 0 => drawn'.out = 0..(drawn.imax - 1)
          /\ shuffler.i = 0 =>
               /\ drawn'.val = 0 /\ ~drawn'.ok
               /\ shuffler' = shuffler]_vars

\* C20 witness: a shuffler made for the largest imax was drawn empty without
\* a giveBack and asked once more.
ShufflerFullCycleSeen ==
    /\ drawn.fresh
    /\ drawn.imax = MaxImax
    /\ drawn.op = "pickRandom"
    /\ ~drawn.ok
    /\ shuffler.i = 0
    /\ drawn.out = 0..(MaxImax - 1)

\* C19: Linearizability.  Each operation holds the mutex of the address
\* space from its first read to its last write: no two callers are between
\* Lock and Unlock at once, and what a call writes and returns is what the
\* operation does and returns when run alone on the address space as it is
\* at the moment of the write.  The results and the final state of any
\* interleaving are thus those of the calls run one by one in the order of
\* their writes.
Linearizable ==
    [][/\ Cardinality({p \in Callers : callers'[p].pc \in {"held", "computed"}}) <= 1
       /\ \A p \in Callers :
            (callers[p].pc = "computed" /\ callers'[p].pc = "idle")
            => LET r == Apply(allocated, subnets, callers[p].c)
               IN  /\ allocated' = r.allocated
                   /\ subnets' = r.subnets
                   /\ call' = callers[p].c
                   /\ ret' = [err |-> r.err, prefix |-> r.prefix, addr |-> r.addr]]_vars

\* C19 witness: of two concurrent allocateSubnet calls for overlapping
\* parents without a sub-range, one has returned with success and the other,
\* which holds the mutex now, is about to return ErrPoolOverlap.
LinearizableSeen ==
    \E p \in Callers :
        /\ callers[p].pc = "computed"
        /\ callers[p].c.op = "allocateSubnet"
        /\ callers[p].r.err = ErrPoolOverlap
        /\ call.op = "allocateSubnet"
        /\ ret.err = Nil
        /\ call.nw # callers[p].c.nw
        /\ Overlaps(call.nw, callers[p].c.nw)

\* C21: Draw without replacement with give-back.  Over any sequence of
\* pickRandom and giveBack calls in which giveBack is called only with a
\* value that is drawn at that moment, pickRandom never returns a value that
\* is drawn, returns ok = false exactly when every integer of [0, imax) is
\* drawn, and the values that can be drawn next are exactly the integers of
\* [0, imax) that are not drawn, a value given back among them.
DrawWithoutReplacement ==
    [][/\ drawn'.op = "pickRandom" =>
            /\ drawn'.ok <=> drawn.out # 0..(drawn.imax - 1)
            /\ drawn'.ok => drawn'.val \in (0..(drawn.imax - 1)) \ drawn.out
       /\ drawn'.op = "giveBack" =>
            \E pos \in 0..(shuffler'.i - 1) : pickRandom(shuffler', pos).val = drawn'.val
       /\ { atPos(shuffler', pos) : pos \in 0..(shuffler'.i - 1) }
             = (0..(drawn'.imax - 1)) \ drawn'.out
       /\ shuffler'.i = drawn'.imax - Cardinality(drawn'.out)]_vars

\* C21 witness: after values were given back, every integer of [0, imax) is
\* drawn again and pickRandom returned ok = false.
DrawWithoutReplacementSeen ==
    /\ ~drawn.fresh
    /\ drawn.imax >= 2
    /\ drawn.op = "pickRandom"
    /\ ~drawn.ok
    /\ drawn.out = 0..(drawn.imax - 1)

\* How many times p occurs in the list l.
CountIn(l, p) == Cardinality({ k \in 1..Len(l) : l[k] = p })

\* C23: Double cursor merge.  For two lists a and b sorted by address, the
\* first len(a)+len(b) rounds of Get() then Inc() return non-empty prefixes
\* in non-decreasing order of address, every prefix as many times as it
\* occurs in a and in b together, and every later Get() returns the empty
\* prefix.
CursorMerge ==
    LET n == Len(dc.a) + Len(dc.b)
    IN  /\ \A k \in 1..Len(dc.out) :
              IF k <= n
              THEN /\ IsValid(dc.out[k])
                   /\ k > 1 => dc.out[k - 1].addr <= dc.out[k].addr
              ELSE dc.out[k] = NoPrefix
        /\ Len(dc.out) >= n =>
              \A p \in CursorPrefixes :
                  CountIn(SubSeq(dc.out, 1, n), p) = CountIn(dc.a, p) + CountIn(dc.b, p)

\* C23 witness: the lists of TestDoubleCursor's shape (three entries and one,
\* the first of each at the same address) were merged, and Get was called
\* again after the last entry.
CursorMergeSeen ==
    /\ Len(dc.a) = 3 /\ Len(dc.b) = 1
    /\ dc.a[1].addr = dc.b[1].addr
    /\ dc.a[1].addr < dc.a[2].addr /\ dc.a[2].addr < dc.a[3].addr
    /\ Len(dc.out) = 6
    /\ dc.out[5] = NoPrefix /\ dc.out[6] = NoPrefix

\* Base a contains Base b, or is equal to it.
ContainsPrefix(a, b) == Overlaps(a, b) /\ a.bits <= b.bits

\* C24: Predefined list normalisation.  Given valid predefined networks,
\* newAddrSpace returns no error and a predefined list made of input entries
\* with their Base masked, sorted by Base, no two of them overlapping, and
\* an input entry is missing from it only if its Base is contained in the
\* Base of an entry that was kept; given a list with a zero Base it returns
\* an error.
PredefinedNormalised ==
    calc.op = "newAddrSpace" =>
        LET in  == calc.pdfs
            out == calc.ret.predefined
        IN  IF \E i \in 1..Len(in) : ~IsValid(in[i].Base)
            THEN calc.ret.err # Nil
            ELSE /\ calc.ret.err = Nil
                 /\ \A k \in 1..Len(out) :
                       /\ out[k].Base = Masked(out[k].Base)
                       /\ out[k] \in Range(maskBases(in))
                 /\ \A k \in 1..(Len(out) - 1) :
                       Compare(out[k].Base, out[k + 1].Base) <= 0
                 /\ \A j, k \in 1..Len(out) :
                       j # k => ~Overlaps(out[j].Base, out[k].Base)
                 /\ \A i \in 1..Len(in) :
                       maskBases(in)[i] \notin Range(out) =>
                           \E k \in 1..Len(out) :
                               ContainsPrefix(out[k].Base, Masked(in[i].Base))

\* C24 witness: a list given out of order, with a Base that has host bits
\* set and a Base inside another, came back shorter.
PredefinedNormalisedSeen ==
    /\ calc.op = "newAddrSpace" /\ calc.ret.err = Nil
    /\ Len(calc.pdfs) = 3 /\ Len(calc.ret.predefined) = 2
    /\ Compare(calc.pdfs[1].Base, calc.pdfs[2].Base) > 0
    /\ \E i \in 1..3 : calc.pdfs[i].Base # Masked(calc.pdfs[i].Base)

\* C25: PoolIDFromString returns InvalidParameter for the empty string, for
\* a string whose number of '/'-separated components is neither 3 nor 5,
\* and for a string whose components 2-3 or 4-5 are no parsable prefix;
\* otherwise it returns no error, AddressSpace is component 1, Subnet the
\* prefix of components 2-3, and ChildSubnet the prefix of components 4-5
\* when there are 5 components, the empty prefix when there are 3.
PoolIDParsed ==
    calc.op = "PoolIDFromString" =>
        LET p      == calc.parts
            n      == Len(p)
            parent == ParsePrefix(p[2] \o <<Slash>> \o p[3])
            child  == ParsePrefix(p[4] \o <<Slash>> \o p[5])
            bad    == \/ calc.str = <<>>
                      \/ n \notin {3, 5}
                      \/ parent.err # Nil
                      \/ n = 5 /\ child.err # Nil
        IN  IF bad THEN calc.ret.err = InvalidParameter
            ELSE /\ calc.ret.err = Nil
                 /\ calc.ret.pID.AddressSpace = p[1]
                 /\ calc.ret.pID.Subnet = parent.prefix
                 /\ calc.ret.pID.ChildSubnet = IF n = 5 THEN child.prefix ELSE NoPrefix

\* C25 witness: a string of five components, an empty address space and a
\* parent with host bits set was parsed into a PoolID with a child.
PoolIDParsedSeen ==
    /\ calc.op = "PoolIDFromString" /\ calc.ret.err = Nil
    /\ Len(calc.parts) = 5
    /\ calc.ret.pID.AddressSpace = <<>>
    /\ calc.ret.pID.Subnet = PrefixFrom(3, 0)
    /\ calc.ret.pID.ChildSubnet = PrefixFrom(12, 3)

\* C26: Distance(p1, p2, sz), for valid prefixes of one family of width W
\* with p1's address at most p2's, is floor(addr(p2) / 2^(W-sz)) -
\* floor(addr(p1) / 2^(W-sz)) capped at the largest uint64; it is 0 when a
\* prefix is invalid, when the families differ, and when p2's address is
\* less than p1's.
DistanceValue ==
    calc.op = "Distance" =>
        IF \/ ~IsValid(calc.p1) \/ ~IsValid(calc.p2)
           \/ calc.w1 # calc.w2
           \/ calc.p2.addr < calc.p1.addr
        THEN calc.ret = 0
        ELSE LET block == Pow2(calc.w1 - calc.sz)
             IN  calc.ret = Min((calc.p2.addr \div block) - (calc.p1.addr \div block),
                                Pow2(Len64) - 1)

\* C26 witness: between two prefixes of the wide family there were more
\* subnets than a uint64 can count, and the cap was returned.
DistanceValueSeen ==
    /\ calc.op = "Distance" /\ calc.w1 = Len16 /\ calc.w2 = Len16
    /\ IsValid(calc.p1) /\ IsValid(calc.p2)
    /\ (calc.p2.addr \div Pow2(calc.w1 - calc.sz))
         - (calc.p1.addr \div Pow2(calc.w1 - calc.sz)) > Pow2(Len64) - 1
    /\ calc.ret = Pow2(Len64) - 1

\* C27: Add(ip, x, shift) is the address of value ip + x * 2^shift and
\* Sub(ip, x, shift) the address of value ip - x * 2^shift, modulo 2^W for
\* the width W of ip's family; hence Sub(Add(ip, x, shift), x, shift) = ip.
AddSubModular ==
    /\ calc.op = "Add" =>
          /\ calc.ret = (calc.ip + calc.x * Pow2(calc.shift)) % Pow2(calc.w)
          /\ Sub(calc.w, calc.ret, calc.x, calc.shift) = calc.ip
    /\ calc.op = "Sub" =>
          calc.ret = (calc.ip - calc.x * Pow2(calc.shift)) % Pow2(calc.w)

\* C27 witness: an addition to an address of the narrow family, of a number
\* wider than the family, went past the last address of the family.
AddSubModularSeen ==
    /\ calc.op = "Add" /\ calc.w = Len4
    /\ calc.x >= Pow2(Len4) /\ calc.shift > 0
    /\ calc.ip + calc.x * Pow2(calc.shift) >= Pow2(calc.w)
    /\ calc.ret # calc.ip

\* C28: Field(ip, u, v), for 0 <= u <= v <= W and v - u <= 64, is made of the
\* bits u (inclusive) to v (exclusive) of ip counted from the most
\* significant: (ip mod 2^(W-u)) div 2^(W-v).
FieldValue ==
    calc.op = "Field" =>
        calc.ret = (calc.ip % Pow2(calc.w - calc.u)) \div Pow2(calc.w - calc.v)

\* C28 witness: a field as wide as a uint64 was read from the middle of an
\* address of the wide family that has bits set before, inside and after it.
FieldValueSeen ==
    /\ calc.op = "Field" /\ calc.w = Len16
    /\ calc.u > 0 /\ calc.v < calc.w /\ calc.v - calc.u = Len64
    /\ calc.ip \div Pow2(calc.w - calc.u) > 0
    /\ calc.ip % Pow2(calc.w - calc.v) > 0
    /\ calc.ret > 0

\* C29: Frame of a dynamic allocation.  A successful allocatePredefinedPool
\* adds the returned prefix once to the allocation list and as one new key
\* of the pool map, and changes nothing else: every prefix allocated before
\* is still in the list, with its PoolData unchanged, and no reserved
\* prefix is added.
DynamicAllocationFrame ==
    [][Picked =>
         /\ \E i \in 0..Len(allocated) : allocated' = SliceInsert(allocated, i, ret'.prefix)
         /\ ret'.prefix \notin DOMAIN subnets
         /\ DOMAIN subnets' = DOMAIN subnets \cup {ret'.prefix}
         /\ \A p \in DOMAIN subnets : subnets'[p] = subnets[p]]_vars

\* C30: Candidates contained in one entry are all skipped.  A prefix
\* returned by allocatePredefinedPool never lies inside a candidate whose
\* Base is contained in an entry of the allocation list or of the reserved
\* prefixes, whether one entry contains one candidate or several
\* consecutive ones.
CoveredCandidatesSkipped ==
    [][Picked =>
         \A k \in 1..Len(Predefined) :
            \A e \in Range(allocated) \cup Range(call'.reserved) :
                ContainsPrefix(e, Predefined[k].Base)
                    => ~ContainsPrefix(Predefined[k].Base, ret'.prefix)]_vars

\* What allocatePredefinedPool(reserved) would return in this state.
PickOutcome(reserved) ==
    LET r == allocatePredefinedPool(allocated, subnets, Predefined, reserved)
    IN  [err |-> r.err, prefix |-> r.prefix]

\* C31: Reserving an allocated prefix changes nothing.  For every reserved
\* list R and every entry a of the allocation list, allocatePredefinedPool
\* returns with R and a the prefix or the error it returns with R.
ReservedAllocatedNeutral ==
    \A R \in ReservedInputs : \A k \in 1..Len(allocated) :
        PickOutcome(Append(R, allocated[k])) = PickOutcome(R)

\* The shuffler holds what its callers have not drawn: i is between 0 and
\* imax and counts the integers of [0, imax) that are not drawn, and the
\* positions below i hold these integers, each once.
ShufflerHolds(s, d) ==
    /\ 0 <= s.i /\ s.i <= d.imax
    /\ s.i = d.imax - Cardinality(d.out)
    /\ \A p, q \in 0..(s.i - 1) : p # q => atPos(s, p) # atPos(s, q)
    /\ { atPos(s, p) : p \in 0..(s.i - 1) } = (0..(d.imax - 1)) \ d.out

\* C32: Shuffler state invariant.  Before and after every pickRandom and
\* every giveBack of a drawn value, 0 <= i <= imax, i is imax less the number
\* of drawn values, and atPos(0) .. atPos(i-1) are pairwise distinct and are
\* the integers of [0, imax) that are not drawn; a successful pickRandom
\* takes one from i and a giveBack adds one to it.
ShufflerInvariant ==
    [][/\ ShufflerHolds(shuffler, drawn)
       /\ ShufflerHolds(shuffler', drawn')
       /\ (drawn'.op = "pickRandom" /\ drawn'.ok) => shuffler'.i = shuffler.i - 1
       /\ drawn'.op = "giveBack" => shuffler'.i = shuffler.i + 1]_vars

\* C32 witness: after draws that moved values, a value that is not the one
\* drawn last was given back while other values are still drawn.
ShufflerInvariantSeen ==
    /\ drawn.op = "giveBack" /\ ~drawn.again
    /\ drawn.out # {}
    /\ shuffler.i >= 2
    /\ \E q \in 0..(shuffler.i - 2) : atPos(shuffler, q) # q

\* C33: allocatePredefinedPool never returns a prefix that is a key of the
\* pool map when it is called, so that no call gives an allocated pool a
\* fresh PoolData and dynamic allocations with no release in between return
\* pairwise distinct prefixes.
PickedIsNewKey ==
    [][Picked => /\ ret'.prefix \notin DOMAIN subnets
                 /\ ret'.prefix \notin Range(allocated)]_vars

\* C34: List/map consistency.  In every state reached by allocateSubnet,
\* allocatePredefinedPool and releaseSubnet, the prefixes of the allocation
\* list are the keys of the pool map and the list holds each of them once
\* (that a deallocated prefix leaves both is ReleaseDeallocates).
ListMapConsistent ==
    /\ Range(allocated) = DOMAIN subnets
    /\ \A i, j \in 1..Len(allocated) : i # j => allocated[i] # allocated[j]

\* The subnets a candidate is split into, in increasing order of address.
SubnetList(pdf) ==
    [k \in 1..Pow2(pdf.Size - pdf.Base.bits) |->
        PrefixFrom(pdf.Base.addr + (k - 1) * Pow2(BitLen - pdf.Size), pdf.Size)]

\* The subnets of the candidates, candidate after candidate.
RECURSIVE AllSubnets(_)
AllSubnets(pdfs) ==
    IF pdfs = <<>> THEN <<>> ELSE SubnetList(Head(pdfs)) \o AllSubnets(Tail(pdfs))

\* C35: Exhaustion.  On a new address space, with nothing reserved and no
\* release, the k-th allocatePredefinedPool returns the k-th subnet of the
\* candidates in increasing order of address, for as many calls as the
\* candidates have subnets (2^(Size - Base.bits) each), and every later call
\* returns ErrNoMoreSubnets.
Exhaustion ==
    LET all == AllSubnets(predefined)
    IN  \A k \in 1..Len(picks) :
            IF k <= Len(all)
            THEN picks[k] = [err |-> Nil, prefix |-> all[k]]
            ELSE picks[k] = [err |-> ErrNoMoreSubnets, prefix |-> NoPrefix]

\* C35 witness: two candidates of different sizes were allocated to their
\* last subnet and the next two calls were refused.
ExhaustionSeen ==
    /\ Len(predefined) = 2
    /\ predefined[1].Size # predefined[2].Size
    /\ Len(picks) = Len(AllSubnets(predefined)) + 2
    /\ picks[Len(picks)].err = ErrNoMoreSubnets
    /\ Len(allocated) = Len(AllSubnets(predefined))

\* C36: Picker termination.  Every iteration of the loop of
\* allocatePredefinedPool that does not return advances the double cursor
\* or increments pdfID; the cursor never passes the end of its lists and
\* pdfID never passes the end of the predefined list, so the iterations are
\* at most len(allocated) + len(reserved) + len(predefined) + 1; the
\* function returns a prefix or ErrNoMoreSubnets.
PickerTerminates ==
    [][(picker.pc = "loop" /\ ~picker.st.done) =>
         LET s == picker.st
             t == picker'.st
         IN  /\ t.ia <= Len(allocated) /\ t.ib <= Len(picker.b)
             /\ t.pdfID <= Len(predefined)
             /\ t.ia >= s.ia /\ t.ib >= s.ib /\ t.pdfID >= s.pdfID
             /\ ~t.done => (t.ia + t.ib > s.ia + s.ib \/ t.pdfID > s.pdfID)
             /\ t.done => \/ t.err = Nil /\ IsValid(t.prefix)
                          \/ t.err = ErrNoMoreSubnets /\ t.prefix = NoPrefix]_vars

\* C36 witness: the loop went through a list of allocated and a list of
\* reserved prefixes and through several candidates, and the call returned
\* ErrNoMoreSubnets.
PickerTerminatesSeen ==
    /\ picker.pc = "returned"
    /\ ret.err = ErrNoMoreSubnets
    /\ Len(allocated) >= 2 /\ Len(picker.b) >= 1
    /\ picker.st.ia + picker.st.ib >= 3
    /\ Len(predefined) >= 2 /\ picker.st.pdfID = Len(predefined)

\* The allocation r, made in this state, is undone by releaseSubnet(nw, no
\* child) of the prefix nw it allocated: the list and the map are what they
\* were.
Undone(r, nw) ==
    LET back == releaseSubnet(r.allocated, r.subnets, nw, NoPrefix)
    IN  /\ back.err = Nil
        /\ back.allocated = allocated
        /\ back.subnets = subnets

\* C37: Allocate/release round trip.  In every reachable state, a
\* successful allocateSubnet(nw, no child), or allocatePredefinedPool that
\* returns nw, followed at once by releaseSubnet(nw, no child) leaves the
\* allocation list, in its order, and the pool map as they were before the
\* allocation (so that the same request gives the same result again).
AllocateReleaseRoundTrip ==
    /\ \A nw \in NwInputs :
          LET r == allocateSubnet(allocated, subnets, nw, NoPrefix)
          IN  r.err = Nil => Undone(r, nw)
    /\ \A reserved \in ReservedInputs :
          LET r == allocatePredefinedPool(allocated, subnets, predefined, reserved)
          IN  r.err = Nil => Undone(r, r.prefix)

\* The lists made of the entries of l in another order.
Reorderings(l) ==
    { [i \in 1..Len(l) |-> l[f[i]]] :
        f \in { g \in [1..Len(l) -> 1..Len(l)] :
                  \A i, j \in 1..Len(l) : i # j => g[i] # g[j] } }

\* C38: The order of the reserved list is irrelevant.  When
\* allocatePredefinedPool(reserved) returns, the prefix or the error it
\* returns and the allocation list it leaves are those the call gives, in
\* the same state, for every other order of the same reserved prefixes.
ReservedOrderIrrelevant ==
    [][(picker.pc = "loop" /\ picker'.pc = "returned") =>
         \A other \in Reorderings(call.reserved) :
            LET r == allocatePredefinedPool(allocated, subnets, predefined, other)
            IN  /\ r.err = ret'.err
                /\ r.prefix = ret'.prefix
                /\ r.allocated = allocated']_vars

\* C38 witness: a call given three reserved prefixes in decreasing order of
\* address went through all of them and returned a prefix.
ReservedOrderIrrelevantSeen ==
    /\ picker.pc = "returned" /\ ret.err = Nil
    /\ Len(call.reserved) = 3
    /\ \A k \in 1..2 : Compare(call.reserved[k], call.reserved[k + 1]) > 0
    /\ picker.st.ib = 3

\* C39: PoolID string round trip.  For a PoolID whose AddressSpace has no
\* "/", whose Subnet is a valid prefix and whose ChildSubnet is empty or a
\* valid prefix, PoolIDFromString(id.String()) returns no error and a PoolID
\* equal to id; id.String() has 3 "/"-separated components when ChildSubnet
\* is the empty prefix and 5 otherwise.
PoolIDRoundTrip ==
    calc.op = "String" =>
        /\ calc.ret.err = Nil
        /\ calc.ret.pID = calc.id
        /\ CountIn(calc.str, Slash) + 1 = IF calc.id.ChildSubnet = NoPrefix THEN 3 ELSE 5

\* C39 witness: a PoolID with an empty address space, a Subnet with host
\* bits set and an address of two digits, and a ChildSubnet was printed
\* and read back.
PoolIDRoundTripSeen ==
    /\ calc.op = "String" /\ calc.ret.err = Nil
    /\ calc.id.AddressSpace = <<>>
    /\ calc.id.Subnet = PrefixFrom(Pow2(BitLen) - 1, 1)
    /\ calc.id.ChildSubnet = PrefixFrom(Half + 1, BitLen)
    /\ Len(calc.str) >= 9

====
